---- MODULE Spec2Model ----
(***************************************************************************)
(* Verification model of VrikshaAI.                                        *)
(*                                                                         *)
(* Part 1: the admission controller (lib/redis-queue.ts, both the ioredis  *)
(* and the Upstash REST build of waitForCapacity), a fixed-window token    *)
(* bucket plus a waitlist kept in a shared Redis store.  Every awaited     *)
(* store command is one step of the calling request, so the commands of    *)
(* concurrent requests interleave freely.                                  *)
(***************************************************************************)
EXTENDS Integers, Sequences, FiniteSets, TLC

\* ------------------------------------------------------------------ bounds
NumCallers == 2                       \* concurrent waitForCapacity calls
GroqRpm == 2                          \* PROVIDER_LIMITS.groq.rpm, scaled down
GroqTpm == 3                          \* PROVIDER_LIMITS.groq.tpm, scaled down
QwenRpm == 1                          \* PROVIDER_LIMITS.qwen.rpm, scaled down
QwenTpm == 2                          \* PROVIDER_LIMITS.qwen.tpm, scaled down
MaxTokens == 2                        \* largest estimatedTokens drawn
MaxEpoch == 1                         \* last epoch the clock of Spec enters
LongEpoch == 10                       \* last epoch the clock of SpecLong enters
NumGuarded == 1                       \* concurrent withSmartRetries calls
MaxRetriesArg == 3                    \* largest maxRetries argument drawn
MaxSteps == 2                         \* longest plan the planner returns
MaxRuns == 2                          \* run() calls on one orchestrator
MaxContent == 2                       \* generated contents: 4, 8 characters
InputLength == 8                      \* characters of the text given to run()
ResponseLength == 4                   \* characters of the planner's response
DocLength == 4                        \* characters of a generated document
MaxBatch == 3                         \* pending diffs given to applyPendingDiffs
NumInstances == 2                     \* orchestrators created in the module
MaxCalls == 2                         \* run() calls on these orchestrators
MaxStops == 1                         \* stop() calls on these orchestrators
MaxLines == 3                         \* lines of a text given to the diff engine
MaxSymbols == 3                       \* candidates given to deduplicateSymbols
MaxCodeLines == 4                     \* lines of a file given to the extractor

\* ------------------------------------------------------- program constants
MAX_WAITS == 10
EPOCH_MS == 60000
SAFETY_MS == 100
KEY_TTL_S == 65
DefaultMaxRetries == 3                \* maxRetries = 3
RateLimitWaitMs == 10000              \* 10_000
maxIterations == 20                   \* let maxIterations = 20
ReviewOverhead == 500                 \* estimateTokens(diff.diff) + 500
DefaultContextLines == 5               \* extractChunk: contextLines = 5

Callers == 1..NumCallers
Limited == {"groq", "qwen"}           \* providers with a PROVIDER_LIMITS row
Providers == Limited \cup {"other"}   \* "other": no row in PROVIDER_LIMITS
Variants == {"ioredis", "upstash"}
Kinds == {"rpm", "tpm"}
TokenChoices == 1..MaxTokens

PROVIDER_LIMITS ==
  [p \in Limited |-> IF p = "groq" THEN [rpm |-> GroqRpm, tpm |-> GroqTpm]
                                   ELSE [rpm |-> QwenRpm, tpm |-> QwenTpm]]

VARIABLES
  variant,      \* which build of redis-queue.ts runs
  configured,   \* REDIS_URL / UPSTASH_REDIS_REST_URL+TOKEN are set
  storeUp,      \* the store answers commands
  available,    \* _redisAvailable
  conn,         \* _redis !== null (ioredis build)
  now,          \* Date.now()
  queue,        \* queue:vriksha:<provider>, a Redis list of request ids
  kv,           \* the counter keys that exist: key -> [v: value, exp: expiry instant, 0 = no TTL]
  pc,           \* position of each call in waitForCapacity
  prov,         \* provider argument
  est,          \* estimatedTokens argument
  waitCount,    \* loop variable
  minute,       \* currentMinute
  position,     \* result of rpush
  cur,          \* currentRpm / currentTpm as read
  pend,         \* gets of Promise.all not yet answered
  batch,        \* commands of the claim batch already executed
  wakeAt,       \* instant the setTimeout fires
  notified,     \* arguments of the onWaitlist call of this iteration, <<>> if none
  bumps,        \* counter increments this call has performed
  issuedIn      \* epoch in which the call was issued, -1 before

acVars == <<variant, configured, storeUp, available, conn, now, queue, kv,
            pc, prov, est, waitCount, minute, position, cur, pend, batch,
            wakeAt, notified, bumps, issuedIn>>

\* Part 2: the retry supervisor (lib/utils.ts, withSmartRetries).  Caller c
\* runs one guarded call; its waitForCapacity is call c of part 1.
VARIABLES
  rsPc,         \* position in withSmartRetries
  rsProv,       \* provider argument
  rsEst,        \* estimatedTokens argument
  maxRetries,   \* maxRetries argument
  hasStatus,    \* an onStatus callback was passed
  attempt,      \* loop variable
  calls,        \* invocations of apiCall so far
  caught,       \* the error caught by the catch clause of this attempt
  waitTime,     \* argument of the setTimeout of the catch clause
  retryAt,      \* instant that timer fires
  status,       \* last retry message handed to onStatus, <<>> if none
  warned,       \* last console.warn of the catch clause, <<>> if none
  outcome       \* how withSmartRetries ended: the value returned or the error thrown

rsVars == <<rsPc, rsProv, rsEst, maxRetries, hasStatus, attempt, calls, caught,
            waitTime, retryAt, status, warned, outcome>>

\* Part 3: the step orchestrator (lib/vriksha-orchestrator.ts) and the step
\* handlers of the planner, code editor and reflection agents.
VARIABLES
  state,        \* the VrikshaState of the orchestrator
  runPc,        \* position in run(): "idle" before a call, "loop", "done"
  iteration,    \* loop variable of run()
  runs,         \* run() calls so far
  apiConfigured,\* providers for which isAPIConfigured is true
  invoked       \* the latest handler invocation: what it saw and returned

orVars == <<state, runPc, iteration, runs, apiConfigured, invoked>>

\* Part 4: several orchestrators of one module, run() calls that overlap, and
\* stop() (lib/vriksha-orchestrator.ts).
VARIABLES
  states,          \* the VrikshaState of each orchestrator
  abortController, \* the module-level controller: the call that made it, 0 = null
  aborted,         \* the calls whose signal is aborted
  call,            \* each run() call: where it is, its orchestrator, its locals
  latest,          \* the latest run() call on each orchestrator
  stops,           \* stop() calls so far
  stopper,         \* the orchestrator of the latest stop() call
  stoppedRuns      \* the calls that were in progress when their orchestrator
                   \* was stopped

ccVars == <<states, abortController, aborted, call, latest, stops, stopper,
            stoppedRuns>>

\* Part 5: the pure functions of the diff engine (lib/diff-engine.ts) and of
\* the symbol extractor (lib/ast-parser.ts).
VARIABLES
  input,           \* the function last called and its arguments
  output           \* what it returned

fnVars == <<input, output>>

appVars == <<rsVars, orVars, ccVars, fnVars>>
vars == <<acVars, appVars>>

storeVars == <<queue, kv>>
envVars == <<variant, configured, storeUp>>

\* ------------------------------------------------------------- store model
\* rate_limit:vriksha:<provider>:<kind>:<minute>
Key(p, k, m) == <<p, k, m>>

\* GET on a counter key; an absent key reads as null and parses as 0
StoreGet(K, key) == IF key \in DOMAIN K THEN K[key].v ELSE 0

\* INCRBY key n (INCR is INCRBY 1); an absent key is created without TTL
StoreIncrBy(K, key, n) ==
  IF key \in DOMAIN K THEN [K EXCEPT ![key].v = @ + n]
  ELSE K @@ (key :> [v |-> n, exp |-> 0])

\* EXPIRE key seconds: only an existing key gets a TTL
StoreExpire(K, key, t) ==
  IF key \in DOMAIN K THEN [K EXCEPT ![key].exp = t + KEY_TTL_S * 1000] ELSE K

\* RPUSH key id: append, the reply is the new length of the list
StoreRPush(q, id) == Append(q, id)

\* a dequeue that pops the head of the list, whoever it is
StoreLRem_PopsHead(q, id) == IF q = <<>> THEN <<>> ELSE Tail(q)

\* LREM key 1 id: remove the first occurrence of id
RECURSIVE StoreLRem(_, _)
StoreLRem(q, id) ==
  IF q = <<>> THEN <<>>
  ELSE IF Head(q) = id THEN Tail(q)
  ELSE <<Head(q)>> \o StoreLRem(Tail(q), id)

InQueue(q, id) == \E i \in 1..Len(q) : q[i] = id

\* keys whose TTL has passed are deleted by the store
Purge(K, t) ==
  [key \in {k \in DOMAIN K : K[k].exp = 0 \/ t < K[k].exp} |-> K[key]]

\* ------------------------------------------------------- pure computations
\* Math.floor(Date.now() / 60_000)
CurrentMinute(t) == t \div EPOCH_MS

\* the time elapsed in the window instead of the time left in it
MsUntilNextMinute_Elapsed(t) == (t % EPOCH_MS) + SAFETY_MS

\* msUntilNextMinute
MsUntilNextMinute(t) == EPOCH_MS - (t % EPOCH_MS) + SAFETY_MS

\* the grant test without isFirst
CanClaim_NoFifo(p, pos, rpmRead, tpmRead, t) ==
  /\ rpmRead < PROVIDER_LIMITS[p].rpm
  /\ (tpmRead + t) <= PROVIDER_LIMITS[p].tpm

\* the grant test comparing the tokens already used, not those about to be
CanClaim_NoTokens(p, pos, rpmRead, tpmRead, t) ==
  /\ rpmRead < PROVIDER_LIMITS[p].rpm
  /\ tpmRead <= PROVIDER_LIMITS[p].tpm
  /\ pos = 1

\* hasRpm && hasTpm && isFirst
CanClaim(p, pos, rpmRead, tpmRead, t) ==
  /\ rpmRead < PROVIDER_LIMITS[p].rpm
  /\ (tpmRead + t) <= PROVIDER_LIMITS[p].tpm
  /\ pos = 1

\* the claim batch with the dequeue sent first
ClaimBatch_DequeueFirst == <<"lrem", "incr", "incrby", "expire_rpm", "expire_tpm">>

\* order of the five commands of the claim batch
ClaimBatch == <<"incr", "incrby", "expire_rpm", "expire_tpm", "lrem">>

NoRead == [k \in Kinds |-> 0]

\* the loop test: waitCount < MAX_WAITS
LoopContinues(w) == w < MAX_WAITS

\* ------------------------------------------------- retry supervisor: data
Guarded == 1..NumGuarded              \* the calls that go through withSmartRetries
RetryChoices == 0..MaxRetriesArg

\* what the catch clause looks at in an error: does its message contain
\* "429", is its status property 429; plus who threw it
NoError == [m429 |-> FALSE, s429 |-> FALSE, src |-> "none"]
CallErrors == [m429 : BOOLEAN, s429 : BOOLEAN, src : {"call"}]
\* errors of the store client have a message and no status property
StoreErrors == [m429 : BOOLEAN, s429 : {FALSE}, src : {"acquire"}]
\* new Error(`API request to ... failed after ... retries.`)
Exhausted == [m429 |-> FALSE, s429 |-> FALSE, src |-> "exhausted"]

NoOutcome == [kind |-> "none", at |-> 0, err |-> NoError]

\* isRateLimit
IsRateLimit(e) == e.m429 \/ e.s429

\* the back-off that doubles from one second instead of from two
BackoffMs_FromOne(e, k) ==
  IF IsRateLimit(e) THEN RateLimitWaitMs ELSE (2 ^ (k - 1)) * 1000

\* waitTime
BackoffMs(e, k) ==
  IF IsRateLimit(e) THEN RateLimitWaitMs ELSE (2 ^ k) * 1000

\* the message handed to onStatus before the back-off
RetryStatus(w, k, n) == <<"retrying", w \div 1000, k + 1, n>>

\* the console.warn before the back-off
RetryWarning(p, k, w) == <<p, k, w>>

RsInit ==
  /\ rsPc = [c \in Callers |-> "idle"]
  /\ rsProv = [c \in Callers |-> "groq"]
  /\ rsEst = [c \in Callers |-> 1]
  /\ maxRetries = [c \in Callers |-> DefaultMaxRetries]
  /\ hasStatus = [c \in Callers |-> FALSE]
  /\ attempt = [c \in Callers |-> 0]
  /\ calls = [c \in Callers |-> 0]
  /\ caught = [c \in Callers |-> NoError]
  /\ waitTime = [c \in Callers |-> 0]
  /\ retryAt = [c \in Callers |-> 0]
  /\ status = [c \in Callers |-> <<>>]
  /\ warned = [c \in Callers |-> <<>>]
  /\ outcome = [c \in Callers |-> NoOutcome]

\* ------------------------------------------------------ orchestrator: data
Nodes == {"idle", "ingestion", "planning", "retrieval", "ast_parsing", "editing",
          "reflection", "deployment", "responding", "error"}
StepActions == {"create", "edit", "delete", "search", "explain"}
Files == {"main.tf", "vars.tf"}
Models == {"qwen", "groq", "gemini"}
CodeModels == <<"qwen", "groq">>      \* order tried by the code editor
ReviewModels == <<"gemini", "groq">>  \* order tried by the reflection agent

\* error messages
NoMessage == ""
MaxIterationsMessage == "Maximum iterations reached"
BusyMessage == "All AI providers are currently experiencing high traffic or rate limits."
PlanMessage == "Failed to generate an architecture plan due to API rate limits."
SearchMessage == "search failed"
EditMessage == "Failed to generate code edit due to API rate limits."
ApplyMessage == "Failed to apply generated diff."
NewFileMessage == "Failed to generate new file due to API rate limits."
ReviewMessage == "Failed to review code changes due to API rate limits."
FormatMessage == "Invalid response format from code review API."
SamjhaoMessage == "Failed to generate explanation due to API rate limits."
DocsMessage == "Failed to generate deployment documentation due to API rate limits."
ReviewFailedMessage == "Code review failed"

\* plan: undefined
NoPlan == [present |-> FALSE, steps |-> <<>>]

\* the steps a parsed plan can have: generatePlan sets completed: false
NewSteps == [action : StepActions, file : Files, completed : {FALSE}, diff : {FALSE}]
PlanChoices == UNION {[1..n -> NewSteps] : n \in 0..MaxSteps}

\* stateUpdates: {}
NoUpdates == <<>>

\* a text is represented by its length; the contents a model call generates
Contents == {4 * k : k \in 1..MaxContent}

\* estimateTokens: Math.ceil(text.length / 4)
estimateTokens(length) == (length + 3) \div 4

\* estimateCost: (tokensUsed / 1000) * 0.0015, in units of 10^-7 dollar
estimateCost(tokensUsed) == tokensUsed * 15

\* codebase.files[path] of a path that has no entry
Absent == 0 - 1

\* codebase.files: {}
NoFiles == [f \in Files |-> Absent]

\* createInitialState
InitialState ==
  [currentNode |-> "idle",
   isProcessing |-> FALSE,
   error |-> NoMessage,
   plan |-> NoPlan,
   currentStepIndex |-> 0,
   pendingDiffs |-> <<>>,
   appliedPatches |-> <<>>,
   files |-> NoFiles,
   tokensUsed |-> 0,
   estimatedCost |-> 0,
   messages |-> <<>>]

\* updateState: { ...state, ...updates }
updateState(s, u) == [f \in DOMAIN s |-> IF f \in DOMAIN u THEN u[f] ELSE s[f]]

NoInvocation ==
  [node |-> "idle", index |-> 0, success |-> TRUE, nextNode |-> "idle",
   error |-> NoMessage, verdicts |-> <<>>, unanswered |-> FALSE]

OrInit ==
  /\ state = InitialState
  /\ runPc = "idle"
  /\ iteration = 0
  /\ runs = 0
  /\ invoked = NoInvocation

\* no function was called yet
FnInit ==
  /\ input = [fn |-> "none"]
  /\ output = <<>>

\* a run() call that was not made yet
NoCall == [pc |-> "none", inst |-> 0, iteration |-> 0, given |-> InitialState]

Instances == 1..NumInstances
Calls == 1..MaxCalls

CcInit ==
  /\ states = [i \in Instances |-> InitialState]
  /\ abortController = 0
  /\ aborted = {}
  /\ call = [c \in Calls |-> NoCall]
  /\ latest = [i \in Instances |-> 0]
  /\ stops = 0
  /\ stopper = 0
  /\ stoppedRuns = {}

\* -------------------------------------------------------------------- Init
AcInit ==
  /\ variant \in Variants
  /\ configured \in BOOLEAN
  /\ storeUp = TRUE
  /\ available = TRUE
  /\ conn = FALSE
  /\ now = 0
  /\ queue = [p \in Limited |-> <<>>]
  /\ kv = <<>>
  /\ pc = [c \in Callers |-> "idle"]
  /\ prov = [c \in Callers |-> "groq"]
  /\ est = [c \in Callers |-> 1]
  /\ waitCount = [c \in Callers |-> 0]
  /\ minute = [c \in Callers |-> 0]
  /\ position = [c \in Callers |-> 0]
  /\ cur = [c \in Callers |-> NoRead]
  /\ pend = [c \in Callers |-> {}]
  /\ batch = [c \in Callers |-> 0]
  /\ wakeAt = [c \in Callers |-> 0]
  /\ notified = [c \in Callers |-> <<>>]
  /\ bumps = [c \in Callers |-> 0]
  /\ issuedIn = [c \in Callers |-> -1]

Init ==
  /\ AcInit
  /\ RsInit
  /\ OrInit
  /\ CcInit
  /\ FnInit
  /\ apiConfigured = Models

\* ------------------------------------------------------------ getRedis
\* result of getRedis(): a usable handle or null
RedisOk ==
  /\ available
  /\ IF variant = "upstash"
       THEN configured /\ storeUp            \* config present and ping answered
       ELSE conn \/ (configured /\ storeUp)  \* cached client, or connect() worked

\* ------------------------------------------------------------ one command
\* effect of one command of the claim batch of call c on the store <<q, K>>
Exec(cmd, c, S) ==
  LET p == prov[c]
      rk == Key(p, "rpm", minute[c])
      tk == Key(p, "tpm", minute[c])
      q == S[1]
      K == S[2]
  IN CASE cmd = "incr"       -> <<q, StoreIncrBy(K, rk, 1)>>
       [] cmd = "incrby"     -> <<q, StoreIncrBy(K, tk, est[c])>>
       [] cmd = "expire_rpm" -> <<q, StoreExpire(K, rk, now)>>
       [] cmd = "expire_tpm" -> <<q, StoreExpire(K, tk, now)>>
       [] cmd = "lrem"       -> <<[q EXCEPT ![p] = StoreLRem(q[p], c)], K>>

RECURSIVE ExecAll(_, _, _)
ExecAll(cmds, c, S) ==
  IF cmds = <<>> THEN S ELSE ExecAll(Tail(cmds), c, Exec(Head(cmds), c, S))

IsIncr(cmd) == cmd \in {"incr", "incrby"}
IncrsIn(cmds) == Cardinality({i \in 1..Len(cmds) : IsIncr(cmds[i])})

\* ---------------------------------------------------------------- actions
\* waitForCapacity up to the loop: getRedis, the limits lookup
Start(c, p, t) ==
  /\ pc[c] = "idle"
  /\ available' = RedisOk
  /\ conn' = (variant = "ioredis" /\ RedisOk)
  /\ issuedIn' = [issuedIn EXCEPT ![c] = CurrentMinute(now)]
  /\ IF RedisOk /\ p \in Limited
       THEN /\ pc' = [pc EXCEPT ![c] = "join"]
            /\ prov' = [prov EXCEPT ![c] = p]
            /\ est' = [est EXCEPT ![c] = t]
       ELSE /\ pc' = [pc EXCEPT ![c] = "noop"]
            /\ UNCHANGED <<prov, est>>
  /\ UNCHANGED <<envVars, now, storeVars, waitCount, minute, position, cur,
                 pend, batch, wakeAt, notified, bumps>>
  /\ UNCHANGED appVars

\* top of one loop iteration: currentMinute, then rpush
Join(c) ==
  /\ pc[c] = "join"
  /\ notified' = [notified EXCEPT ![c] = <<>>]
  /\ IF storeUp
       THEN /\ minute' = [minute EXCEPT ![c] = CurrentMinute(now)]
            /\ queue' = [queue EXCEPT ![prov[c]] = StoreRPush(@, c)]
            /\ position' = [position EXCEPT ![c] = Len(queue'[prov[c]])]
            /\ pend' = [pend EXCEPT ![c] = Kinds]
            /\ pc' = [pc EXCEPT ![c] = "read"]
       ELSE /\ pc' = [pc EXCEPT ![c] = "threw"]
            /\ UNCHANGED <<queue, position, pend, minute>>
  /\ UNCHANGED <<envVars, available, conn, now, kv, prov, est, waitCount,
                 cur, batch, wakeAt, bumps, issuedIn>>
  /\ UNCHANGED appVars

\* one get of the Promise.all; the last answer runs the grant test
Get(c, k) ==
  /\ pc[c] = "read"
  /\ k \in pend[c]
  /\ IF storeUp
       THEN LET v == StoreGet(kv, Key(prov[c], k, minute[c]))
                r == [cur[c] EXCEPT ![k] = v]
            IN /\ cur' = [cur EXCEPT ![c] = r]
               /\ pend' = [pend EXCEPT ![c] = @ \ {k}]
               /\ pc' = [pc EXCEPT ![c] =
                    IF pend[c] # {k} THEN "read"
                    ELSE IF CanClaim(prov[c], position[c], r.rpm, r.tpm, est[c])
                           THEN "claim" ELSE "leave"]
       ELSE /\ pc' = [pc EXCEPT ![c] = "threw"]
            /\ pend' = [pend EXCEPT ![c] = {}]
            /\ cur' = [cur EXCEPT ![c] = NoRead]
  /\ UNCHANGED <<envVars, available, conn, now, storeVars, prov, est, waitCount,
                 minute, position, batch, wakeAt, notified, bumps, issuedIn>>
  /\ UNCHANGED appVars

\* the claim batch: MULTI/EXEC in the ioredis build (one indivisible step),
\* POST /pipeline in the Upstash build (the commands run in order, commands of
\* other clients may run in between)
Claim(c) ==
  /\ pc[c] = "claim"
  /\ IF batch[c] = 0 /\ ~storeUp
       THEN /\ pc' = [pc EXCEPT ![c] = "threw"]
            /\ UNCHANGED <<storeVars, batch, bumps>>
       ELSE LET n == IF variant = "ioredis" THEN Len(ClaimBatch) ELSE 1
                cmds == SubSeq(ClaimBatch, batch[c] + 1, batch[c] + n)
                S == ExecAll(cmds, c, <<queue, kv>>)
                last == batch[c] + n = Len(ClaimBatch)
            IN /\ queue' = S[1]
               /\ kv' = S[2]
               /\ bumps' = [bumps EXCEPT ![c] = @ + IncrsIn(cmds)]
               /\ batch' = [batch EXCEPT ![c] = IF last THEN 0 ELSE @ + n]
               /\ pc' = [pc EXCEPT ![c] = IF last THEN "granted" ELSE "claim"]
  /\ cur' = [cur EXCEPT ![c] = IF pc'[c] = "claim" THEN @ ELSE NoRead]
  /\ UNCHANGED <<envVars, available, conn, now, prov, est, waitCount, minute,
                 position, pend, wakeAt, notified, issuedIn>>
  /\ UNCHANGED appVars

\* refused: lrem, msUntilNextMinute, onWaitlist, setTimeout
Leave(c) ==
  /\ pc[c] = "leave"
  /\ IF storeUp
       THEN /\ queue' = [queue EXCEPT ![prov[c]] = StoreLRem(@, c)]
            /\ notified' = [notified EXCEPT ![c] = <<position[c], MsUntilNextMinute(now)>>]
            /\ wakeAt' = [wakeAt EXCEPT ![c] = now + MsUntilNextMinute(now)]
            /\ pc' = [pc EXCEPT ![c] = "sleep"]
       ELSE /\ pc' = [pc EXCEPT ![c] = "threw"]
            /\ UNCHANGED <<queue, notified, wakeAt>>
  /\ cur' = [cur EXCEPT ![c] = NoRead]
  /\ UNCHANGED <<envVars, available, conn, now, kv, prov, est, waitCount,
                 minute, position, pend, batch, bumps, issuedIn>>
  /\ UNCHANGED appVars

\* the timer fires and the loop goes round without counting the wait
Wake_NoCount(c) ==
  /\ pc[c] = "sleep"
  /\ now >= wakeAt[c]
  /\ pc' = [pc EXCEPT ![c] = IF LoopContinues(waitCount[c]) THEN "join" ELSE "forced"]
  /\ UNCHANGED <<envVars, available, conn, now, storeVars, prov, est, minute,
                 position, cur, pend, batch, wakeAt, notified, bumps, issuedIn,
                 waitCount>>
  /\ UNCHANGED appVars

\* the timer fires: waitCount++ and the loop test
Wake(c) ==
  /\ pc[c] = "sleep"
  /\ now >= wakeAt[c]
  /\ waitCount' = [waitCount EXCEPT ![c] = @ + 1]
  /\ pc' = [pc EXCEPT ![c] = IF LoopContinues(waitCount[c] + 1) THEN "join" ELSE "forced"]
  /\ UNCHANGED <<envVars, available, conn, now, storeVars, prov, est, minute,
                 position, cur, pend, batch, wakeAt, notified, bumps, issuedIn>>
  /\ UNCHANGED appVars

\* the _redis.on('error') handler of the ioredis build
ErrorEvent ==
  /\ variant = "ioredis"
  /\ conn
  /\ ~storeUp
  /\ available' = FALSE
  /\ conn' = FALSE
  /\ UNCHANGED <<envVars, now, storeVars, pc, prov, est, waitCount, minute,
                 position, cur, pend, batch, wakeAt, notified, bumps, issuedIn>>
  /\ UNCHANGED appVars

\* ------------------------------------------------------------ environment
\* The clock is sampled three times per epoch: at the boundary, SAFETY_MS
\* after it (when the sleepers of the previous epoch wake) and in its last
\* millisecond.
NextInstant(t) ==
  LET o == t % EPOCH_MS
  IN IF o = 0 THEN t + SAFETY_MS
     ELSE IF o = SAFETY_MS THEN t - SAFETY_MS + EPOCH_MS - 1
     ELSE t + 1

Advance(lastEpoch, t) ==
  /\ CurrentMinute(t) <= lastEpoch
  /\ now' = t
  /\ kv' = Purge(kv, now')
  /\ UNCHANGED <<envVars, available, conn, queue, pc, prov, est, waitCount,
                 minute, position, cur, pend, batch, wakeAt, notified, bumps,
                 issuedIn>>
  /\ UNCHANGED appVars

Tick == Advance(MaxEpoch, NextInstant(now))

StoreFail ==
  /\ configured
  /\ storeUp
  /\ storeUp' = FALSE
  /\ UNCHANGED <<variant, configured, available, conn, now, storeVars, pc, prov,
                 est, waitCount, minute, position, cur, pend, batch, wakeAt,
                 notified, bumps, issuedIn>>
  /\ UNCHANGED appVars

StoreRecover ==
  /\ ~storeUp
  /\ storeUp' = TRUE
  /\ UNCHANGED <<variant, configured, available, conn, now, storeVars, pc, prov,
                 est, waitCount, minute, position, cur, pend, batch, wakeAt,
                 notified, bumps, issuedIn>>
  /\ UNCHANGED appVars

Next ==
  \/ \E c \in Callers, p \in Providers, t \in TokenChoices : Start(c, p, t)
  \/ \E c \in Callers : Join(c)
  \/ \E c \in Callers, k \in Kinds : Get(c, k)
  \/ \E c \in Callers : Claim(c)
  \/ \E c \in Callers : Leave(c)
  \/ \E c \in Callers : Wake(c)
  \/ ErrorEvent
  \/ Tick
  \/ StoreFail
  \/ StoreRecover

Spec == Init /\ [][Next]_vars

\* ------------------------------------------------ the long-horizon system
\* Calls to one provider, all issued in the first epoch and followed over
\* LongEpoch epochs, so that a call can use up its MAX_WAITS sleeps.  The
\* store is configured and answers; the clock is sampled once per epoch, at
\* the instant the sleepers of the previous epoch wake.
NextWake(t) == (CurrentMinute(t) + 1) * EPOCH_MS + SAFETY_MS

TickLong == Advance(LongEpoch, NextWake(now))

StartLong(c, t) == CurrentMinute(now) = 0 /\ Start(c, "groq", t)

InitLong == Init /\ configured

NextLong ==
  \/ \E c \in Callers, t \in TokenChoices : StartLong(c, t)
  \/ \E c \in Callers : Join(c)
  \/ \E c \in Callers, k \in Kinds : Get(c, k)
  \/ \E c \in Callers : Claim(c)
  \/ \E c \in Callers : Leave(c)
  \/ \E c \in Callers : Wake(c)
  \/ TickLong

SpecLong == InitLong /\ [][NextLong]_vars

\* ---------------------------------------------------- the retry supervisor
\* withSmartRetries(provider, estimatedTokens, apiCall, onStatus, maxRetries)
\* is entered: attempt = 1 and the loop test
Guard(c, p, t, n, cb) ==
  /\ rsPc[c] = "idle"
  /\ rsProv' = [rsProv EXCEPT ![c] = p]
  /\ rsEst' = [rsEst EXCEPT ![c] = t]
  /\ maxRetries' = [maxRetries EXCEPT ![c] = n]
  /\ hasStatus' = [hasStatus EXCEPT ![c] = cb]
  /\ attempt' = [attempt EXCEPT ![c] = 1]
  /\ IF 1 <= n
       THEN /\ rsPc' = [rsPc EXCEPT ![c] = "acquire"]
            /\ UNCHANGED outcome
       ELSE /\ rsPc' = [rsPc EXCEPT ![c] = "threw"]
            /\ outcome' = [outcome EXCEPT ![c] =
                 [kind |-> "error", at |-> 0, err |-> Exhausted]]
  /\ UNCHANGED <<acVars, orVars, ccVars, fnVars, calls, caught, waitTime, retryAt, status, warned>>

\* waitForCapacity(provider, estimatedTokens, ...) is called
Acquire(c) ==
  /\ rsPc[c] = "acquire"
  /\ Start(c, rsProv[c], rsEst[c])

\* apiCall is fired without awaiting waitForCapacity
Invoke_NoAwait(c) ==
  /\ rsPc[c] = "acquire"
  /\ pc[c] # "idle"
  /\ rsPc' = [rsPc EXCEPT ![c] = "call"]
  /\ calls' = [calls EXCEPT ![c] = @ + 1]
  /\ UNCHANGED <<acVars, orVars, ccVars, fnVars, rsProv, rsEst, maxRetries, hasStatus, attempt,
                 caught, waitTime, retryAt, status, warned, outcome>>

\* waitForCapacity has returned: apiCall() is invoked
Invoke(c) ==
  /\ rsPc[c] = "acquire"
  /\ pc[c] \in {"granted", "forced", "noop"}
  /\ rsPc' = [rsPc EXCEPT ![c] = "call"]
  /\ calls' = [calls EXCEPT ![c] = @ + 1]
  /\ UNCHANGED <<acVars, orVars, ccVars, fnVars, rsProv, rsEst, maxRetries, hasStatus, attempt,
                 caught, waitTime, retryAt, status, warned, outcome>>

\* apiCall() resolves: return its value
Succeed(c) ==
  /\ rsPc[c] = "call"
  /\ rsPc' = [rsPc EXCEPT ![c] = "returned"]
  /\ outcome' = [outcome EXCEPT ![c] =
       [kind |-> "value", at |-> attempt[c], err |-> NoError]]
  /\ UNCHANGED <<acVars, orVars, ccVars, fnVars, rsProv, rsEst, maxRetries, hasStatus, attempt,
                 calls, caught, waitTime, retryAt, status, warned>>

\* a catch clause that backs off after the last attempt too
Catch_NoLastCheck(c, e) ==
  /\ caught' = [caught EXCEPT ![c] = e]
  /\ LET w == BackoffMs(e, attempt[c])
     IN /\ waitTime' = [waitTime EXCEPT ![c] = w]
        /\ status' = [status EXCEPT ![c] =
             IF hasStatus[c] THEN RetryStatus(w, attempt[c], maxRetries[c]) ELSE @]
        /\ warned' = [warned EXCEPT ![c] = RetryWarning(rsProv[c], attempt[c], w)]
        /\ retryAt' = [retryAt EXCEPT ![c] = now + w]
        /\ rsPc' = [rsPc EXCEPT ![c] = "backoff"]
        /\ UNCHANGED outcome

\* the catch clause with error e
Catch(c, e) ==
  /\ caught' = [caught EXCEPT ![c] = e]
  /\ IF attempt[c] = maxRetries[c]
       THEN /\ rsPc' = [rsPc EXCEPT ![c] = "threw"]
            /\ outcome' = [outcome EXCEPT ![c] =
                 [kind |-> "error", at |-> attempt[c], err |-> e]]
            /\ UNCHANGED <<waitTime, retryAt, status, warned>>
       ELSE LET w == BackoffMs(e, attempt[c])
            IN /\ waitTime' = [waitTime EXCEPT ![c] = w]
               /\ status' = [status EXCEPT ![c] =
                    IF hasStatus[c] THEN RetryStatus(w, attempt[c], maxRetries[c]) ELSE @]
               /\ warned' = [warned EXCEPT ![c] = RetryWarning(rsProv[c], attempt[c], w)]
               /\ retryAt' = [retryAt EXCEPT ![c] = now + w]
               /\ rsPc' = [rsPc EXCEPT ![c] = "backoff"]
               /\ UNCHANGED outcome

\* apiCall() rejects with e
Fail(c, e) ==
  /\ rsPc[c] = "call"
  /\ Catch(c, e)
  /\ UNCHANGED <<acVars, orVars, ccVars, fnVars, rsProv, rsEst, maxRetries, hasStatus, attempt,
                 calls>>

\* waitForCapacity rejects with e: the same catch clause, apiCall not invoked
AcquireThrew(c, e) ==
  /\ rsPc[c] = "acquire"
  /\ pc[c] = "threw"
  /\ Catch(c, e)
  /\ UNCHANGED <<acVars, orVars, ccVars, fnVars, rsProv, rsEst, maxRetries, hasStatus, attempt,
                 calls>>

\* the back-off timer fires: attempt++, the loop test, and the frame of the
\* finished waitForCapacity call is gone
Retry(c) ==
  /\ rsPc[c] = "backoff"
  /\ now >= retryAt[c]
  /\ attempt' = [attempt EXCEPT ![c] = @ + 1]
  /\ IF attempt[c] + 1 <= maxRetries[c]
       THEN /\ rsPc' = [rsPc EXCEPT ![c] = "acquire"]
            /\ UNCHANGED outcome
       ELSE /\ rsPc' = [rsPc EXCEPT ![c] = "threw"]
            /\ outcome' = [outcome EXCEPT ![c] =
                 [kind |-> "error", at |-> 0, err |-> Exhausted]]
  /\ pc' = [pc EXCEPT ![c] = "idle"]
  /\ waitCount' = [waitCount EXCEPT ![c] = 0]
  /\ position' = [position EXCEPT ![c] = 0]
  /\ notified' = [notified EXCEPT ![c] = <<>>]
  /\ bumps' = [bumps EXCEPT ![c] = 0]
  /\ UNCHANGED <<envVars, available, conn, now, storeVars, prov, est, minute,
                 cur, pend, batch, wakeAt, issuedIn>>
  /\ UNCHANGED <<orVars, ccVars, fnVars, rsProv, rsEst, maxRetries, hasStatus, calls, caught,
                 waitTime, retryAt, status, warned>>

NextRetry ==
  \/ \E c \in Guarded, p \in Providers, t \in TokenChoices, n \in RetryChoices,
        cb \in BOOLEAN : Guard(c, p, t, n, cb)
  \/ \E c \in Guarded : Acquire(c)
  \/ \E c \in Guarded : Join(c)
  \/ \E c \in Guarded, k \in Kinds : Get(c, k)
  \/ \E c \in Guarded : Claim(c)
  \/ \E c \in Guarded : Leave(c)
  \/ \E c \in Guarded : Wake(c)
  \/ \E c \in Guarded : Invoke(c)
  \/ \E c \in Guarded : Succeed(c)
  \/ \E c \in Guarded, e \in CallErrors : Fail(c, e)
  \/ \E c \in Guarded, e \in StoreErrors : AcquireThrew(c, e)
  \/ \E c \in Guarded : Retry(c)
  \/ ErrorEvent
  \/ Tick
  \/ StoreFail
  \/ StoreRecover

SpecRetry == Init /\ [][NextRetry]_vars

\* ------------------------------------------------- withRetries
\* withRetries(() => callGroq(...)) of classifyIntent and generatePlan is
\* entered: attempt = 1, the loop test, apiCall() is invoked
Legacy(c, p) ==
  /\ rsPc[c] = "idle"
  /\ pc[c] = "idle"
  /\ rsProv' = [rsProv EXCEPT ![c] = p]
  /\ maxRetries' = [maxRetries EXCEPT ![c] = DefaultMaxRetries]
  /\ attempt' = [attempt EXCEPT ![c] = 1]
  /\ calls' = [calls EXCEPT ![c] = @ + 1]
  /\ rsPc' = [rsPc EXCEPT ![c] = "plainCall"]
  /\ UNCHANGED <<acVars, orVars, ccVars, fnVars, rsEst, hasStatus, caught, waitTime, retryAt,
                 status, warned, outcome>>

\* apiCall() of withRetries resolves (e = NoError) or rejects with e: return,
\* throw after the last attempt, or wait 2 ^ attempt seconds
LegacySettle(c, e) ==
  /\ rsPc[c] = "plainCall"
  /\ caught' = [caught EXCEPT ![c] = e]
  /\ IF e = NoError
       THEN /\ rsPc' = [rsPc EXCEPT ![c] = "returned"]
            /\ outcome' = [outcome EXCEPT ![c] =
                 [kind |-> "value", at |-> attempt[c], err |-> NoError]]
            /\ UNCHANGED <<waitTime, retryAt>>
     ELSE IF attempt[c] = maxRetries[c]
       THEN /\ rsPc' = [rsPc EXCEPT ![c] = "threw"]
            /\ outcome' = [outcome EXCEPT ![c] =
                 [kind |-> "error", at |-> attempt[c], err |-> e]]
            /\ UNCHANGED <<waitTime, retryAt>>
     ELSE /\ waitTime' = [waitTime EXCEPT ![c] = (2 ^ attempt[c]) * 1000]
          /\ retryAt' = [retryAt EXCEPT ![c] = now + (2 ^ attempt[c]) * 1000]
          /\ rsPc' = [rsPc EXCEPT ![c] = "plainBackoff"]
          /\ UNCHANGED outcome
  /\ UNCHANGED <<acVars, orVars, ccVars, fnVars, rsProv, rsEst, maxRetries, hasStatus, attempt,
                 calls, status, warned>>

\* the timer of withRetries fires: attempt++, the loop test, apiCall() again
LegacyRetry(c) ==
  /\ rsPc[c] = "plainBackoff"
  /\ now >= retryAt[c]
  /\ attempt' = [attempt EXCEPT ![c] = @ + 1]
  /\ calls' = [calls EXCEPT ![c] = @ + 1]
  /\ rsPc' = [rsPc EXCEPT ![c] = "plainCall"]
  /\ UNCHANGED <<acVars, orVars, ccVars, fnVars, rsProv, rsEst, maxRetries, hasStatus, caught,
                 waitTime, retryAt, status, warned, outcome>>

\* the model calls of a run: the guarded ones of the editor and the
\* reflection agent, the withRetries ones of the planner
NextCalls ==
  \/ NextRetry
  \/ \E c \in Guarded, p \in {"groq", "other"} : Legacy(c, p)
  \/ \E c \in Guarded, e \in CallErrors \cup {NoError} : LegacySettle(c, e)
  \/ \E c \in Guarded : LegacyRetry(c)

SpecCalls == Init /\ [][NextCalls]_vars

\* ------------------------------------------------------- the step handlers
\* what a handler returns
Result(ok, next, updates, message, err) ==
  [success |-> ok, nextNode |-> next, stateUpdates |-> updates,
   userMessage |-> message, error |-> err]

\* the catch clause of a handler
Failure(message) ==
  Result(FALSE, "error", [error |-> message], NoMessage, message)

\* the guarded calls of one request, provider after provider: some provider
\* in `order` is configured and did not exhaust its retries
Answered(order, down) ==
  \E i \in 1..Len(order) : order[i] \in apiConfigured /\ order[i] \notin down

\* a total that forgets what the earlier handlers spent
Spent_StepOnly(s, tokensUsed) == tokensUsed

\* tokensUsed: state.tokensUsed + tokensUsed
Spent(s, tokensUsed) == s.tokensUsed + tokensUsed

\* executeIngestionNode; o.ok: classifyIntent returned
executeIngestionNode(s, o) ==
  IF o.ok
    THEN Result(TRUE, "planning",
                [tokensUsed |-> Spent(s, estimateTokens(InputLength))],
                NoMessage, NoMessage)
  ELSE Failure(BusyMessage)

\* executePlannerNode; o.kind: generatePlan threw, asked questions, or parsed
\* a plan with o.steps
executePlannerNode(s, o) ==
  LET tokensUsed == estimateTokens(InputLength) + estimateTokens(ResponseLength)
  IN CASE o.kind = "threw" -> Failure(PlanMessage)
       [] o.kind = "questions" ->
            Result(TRUE, "responding",
                   [plan |-> NoPlan, tokensUsed |-> Spent(s, tokensUsed)],
                   "questions", NoMessage)
       [] o.kind = "plan" /\ Len(o.steps) > 0 ->
            Result(TRUE,
                   IF o.steps[1].action = "search" THEN "retrieval" ELSE "editing",
                   [plan |-> [present |-> TRUE, steps |-> o.steps],
                    currentStepIndex |-> 0,
                    tokensUsed |-> Spent(s, tokensUsed)],
                   "plan", NoMessage)
       [] OTHER -> Result(TRUE, "responding",
                          [tokensUsed |-> Spent(s, tokensUsed)],
                          "response", NoMessage)

\* a step that is given its diff and left uncompleted
MarkCompleted_DiffOnly(steps, i, d) ==
  [j \in 1..Len(steps) |->
     IF j = i + 1 THEN [steps[j] EXCEPT !.diff = d] ELSE steps[j]]

\* plan.steps.map(...): step i (counted from 0) completed, with or without a diff
MarkCompleted(steps, i, d) ==
  [j \in 1..Len(steps) |->
     IF j = i + 1 THEN [steps[j] EXCEPT !.completed = TRUE, !.diff = d] ELSE steps[j]]

\* a next-node rule that never routes to retrieval
NextNodeAfter_NoSearch(steps, i) ==
  IF i + 1 < Len(steps) THEN "editing" ELSE "reflection"

\* "Determine next node", the same in the retrieval and the editing handler
NextNodeAfter(steps, i) ==
  IF i + 1 < Len(steps)
    THEN IF steps[i + 2].action = "search" THEN "retrieval" ELSE "editing"
    ELSE "reflection"

\* executeRetrievalNode; o.ok: searchCodebase returned
executeRetrievalNode(s, o) ==
  IF ~s.plan.present THEN Result(TRUE, "planning", NoUpdates, NoMessage, NoMessage)
  ELSE IF ~o.ok THEN Failure(SearchMessage)
  ELSE LET i == s.currentStepIndex
           steps == s.plan.steps
       IN Result(TRUE, NextNodeAfter(steps, i),
                 [plan |-> [present |-> TRUE,
                            steps |-> [j \in 1..Len(steps) |->
                                        IF j = i + 1 THEN [steps[j] EXCEPT !.completed = TRUE]
                                        ELSE steps[j]]],
                  currentStepIndex |-> i + 1],
                 "files", NoMessage)

\* executeAstParsingNode
executeAstParsingNode(s) == Result(TRUE, "editing", NoUpdates, NoMessage, NoMessage)

\* executeDeploymentNode
executeDeploymentNode(s) == Result(TRUE, "responding", NoUpdates, "deploy", NoMessage)

\* executeRespondingNode
executeRespondingNode(s) ==
  Result(TRUE, "idle", [isProcessing |-> FALSE], NoMessage, NoMessage)

\* executeCodeEditorNode; o.down: the providers whose guarded call exhausts
\* its retries, o.applies: applyUnifiedPatch returned content, o.content: the
\* content the answer yields, o.valid: the diff text of a new file passes
\* validatePatch (the diff text of an edit does: it is the text that
\* applyUnifiedPatch applied to the same original content)
executeCodeEditorNode(s, o) ==
  IF ~s.plan.present \/ s.currentStepIndex >= Len(s.plan.steps)
    THEN Result(TRUE, "reflection", NoUpdates, NoMessage, NoMessage)
  ELSE LET i == s.currentStepIndex
           steps == s.plan.steps
           step == steps[i + 1]
           edits == step.action = "edit" /\ s.files[step.file] # Absent
           creates == step.action = "create" \/ (step.action = "edit" /\ ~edits)
           diff == [filePath |-> step.file,
                    originalContent |-> IF edits THEN s.files[step.file] ELSE 0,
                    patchedContent |-> o.content,
                    valid |-> edits \/ o.valid]
           tokensUsed ==
             IF edits THEN estimateTokens(s.files[step.file]) + estimateTokens(o.content)
             ELSE IF creates THEN estimateTokens(o.content)
             ELSE 0
           done(d) ==
             Result(TRUE, NextNodeAfter(steps, i),
                    [plan |-> [present |-> TRUE, steps |-> MarkCompleted(steps, i, d)],
                     currentStepIndex |-> i + 1,
                     pendingDiffs |-> IF d THEN Append(s.pendingDiffs, diff)
                                      ELSE s.pendingDiffs,
                     tokensUsed |-> Spent(s, tokensUsed)],
                    IF d THEN "generated" ELSE NoMessage, NoMessage)
       IN CASE edits /\ ~Answered(CodeModels, o.down) -> Failure(EditMessage)
            [] edits /\ ~o.applies -> Failure(ApplyMessage)
            [] creates /\ ~Answered(CodeModels, o.down) -> Failure(NewFileMessage)
            [] OTHER -> done(edits \/ creates)

\* error of a PatchResult
PatchMessage == "Patch validation failed"

\* an acceptance test that trusts validatePatch alone
Accepts_ValidOnly(diff) == diff.valid

\* isValid || diff.originalContent === ''
Accepts(diff) == diff.valid \/ diff.originalContent = 0

\* a rejected diff that is written to the file all the same
Rejected_WritesAnyway(before, diff) ==
  [files |-> [before.files EXCEPT ![diff.filePath] = diff.patchedContent],
   results |-> Append(before.results,
                      [filePath |-> diff.filePath, success |-> FALSE,
                       error |-> PatchMessage])]

\* the else branch: results.push({ success: false, error, ... })
Rejected(before, diff) ==
  [files |-> before.files,
   results |-> Append(before.results,
                      [filePath |-> diff.filePath, success |-> FALSE,
                       error |-> PatchMessage])]

\* an accepted diff applied to the content the file has by then: written
\* only where that content is the one the diff was made from
Accepted_Composes(before, diff) ==
  [files |-> IF before.files[diff.filePath] \in {Absent, diff.originalContent}
               THEN [before.files EXCEPT ![diff.filePath] = diff.patchedContent]
               ELSE before.files,
   results |-> Append(before.results,
                      [filePath |-> diff.filePath, success |-> TRUE,
                       error |-> NoMessage])]

\* the then branch: updatedFiles[diff.filePath] = ..., results.push({ success: true })
Accepted(before, diff) ==
  [files |-> [before.files EXCEPT ![diff.filePath] = diff.patchedContent],
   results |-> Append(before.results,
                      [filePath |-> diff.filePath, success |-> TRUE,
                       error |-> NoMessage])]

\* the loop of applyPendingDiffs over the first n pending diffs: the files
\* written and one PatchResult per diff
RECURSIVE ApplyDiffs(_, _, _)
ApplyDiffs(files, pd, n) ==
  IF n = 0 THEN [files |-> files, results |-> <<>>]
  ELSE LET before == ApplyDiffs(files, pd, n - 1)
       IN IF Accepts(pd[n]) THEN Accepted(before, pd[n]) ELSE Rejected(before, pd[n])

\* applyPendingDiffs
applyPendingDiffs(s) == ApplyDiffs(s.files, s.pendingDiffs, Len(s.pendingDiffs))

\* the state a failed review sends the run back to
RetryTarget_Retrieval == "retrieval"

\* nextNode of a failed review
RetryTarget == "editing"

\* a failed review that also drops the diffs it rejected
ReviewFailed_DropsDiffs(s, tokensUsed) ==
  Result(FALSE, RetryTarget,
         [error |-> ReviewFailedMessage, pendingDiffs |-> <<>>,
          tokensUsed |-> Spent(s, tokensUsed)],
         "review found issues", NoMessage)

\* "If any review failed, loop back to editor": the result has no error field
ReviewFailed(s, tokensUsed) ==
  Result(FALSE, RetryTarget,
         [error |-> ReviewFailedMessage, tokensUsed |-> Spent(s, tokensUsed)],
         "review found issues", NoMessage)

\* a passed review that leaves the applied diffs pending
Passed_KeepsDiffs(s, tokensUsed) ==
  [files |-> applyPendingDiffs(s).files,
   appliedPatches |-> applyPendingDiffs(s).results,
   tokensUsed |-> Spent(s, tokensUsed)]

\* stateUpdates of a passed review: codebase, appliedPatches, pendingDiffs: []
Passed(s, tokensUsed) ==
  [files |-> applyPendingDiffs(s).files,
   appliedPatches |-> applyPendingDiffs(s).results,
   pendingDiffs |-> <<>>,
   tokensUsed |-> Spent(s, tokensUsed)]

\* length of diff.diff: the removed and the added text
DiffLength(diff) == diff.originalContent + diff.patchedContent

\* tokensUsed after reviewing the first n pending diffs
RECURSIVE ReviewTokens(_, _)
ReviewTokens(pd, n) ==
  IF n = 0 THEN 0
  ELSE ReviewTokens(pd, n - 1) + estimateTokens(DiffLength(pd[n])) + ReviewOverhead

\* executeReflectionNode; o.reviews[i]: how reviewCode of pending diff i ends
\* ("valid", "invalid", "unanswered": every provider exhausted, "garbled":
\* no JSON in the answer), o.samjhaoDown / o.docsDown: providers exhausted
\* for the two documents
executeReflectionNode(s, o) ==
  LET pd == s.pendingDiffs
      threw == {i \in 1..Len(pd) : o.reviews[i] \in {"unanswered", "garbled"}}
      first == CHOOSE i \in threw : \A j \in threw : i <= j
      reviewed == ReviewTokens(pd, Len(pd))
      documented == reviewed + estimateTokens(DocLength) + estimateTokens(DocLength)
  IN IF pd = <<>>
       THEN Result(TRUE, "responding", NoUpdates, "nothing to review", NoMessage)
     ELSE IF threw # {}
       THEN Failure(IF o.reviews[first] = "unanswered" THEN ReviewMessage
                    ELSE FormatMessage)
     ELSE IF \E i \in 1..Len(pd) : o.reviews[i] = "invalid"
       THEN ReviewFailed(s, reviewed)
     ELSE IF ~Answered(ReviewModels, o.samjhaoDown) THEN Failure(SamjhaoMessage)
     ELSE IF ~Answered(ReviewModels, o.docsDown) THEN Failure(DocsMessage)
     ELSE Result(TRUE, "responding", Passed(s, documented), "review passed", NoMessage)

\* nodeExecutors[node](state)
nodeExecutors(node, s, o) ==
  CASE node = "idle" -> Result(TRUE, "idle", NoUpdates, NoMessage, NoMessage)
    [] node = "ingestion" -> executeIngestionNode(s, o)
    [] node = "planning" -> executePlannerNode(s, o)
    [] node = "retrieval" -> executeRetrievalNode(s, o)
    [] node = "ast_parsing" -> executeAstParsingNode(s)
    [] node = "editing" -> executeCodeEditorNode(s, o)
    [] node = "reflection" -> executeReflectionNode(s, o)
    [] node = "deployment" -> executeDeploymentNode(s)
    [] node = "responding" -> executeRespondingNode(s)
    [] node = "error" -> Result(FALSE, "idle", NoUpdates, NoMessage, s.error)

\* what the outside world can answer to the handler of the current node
ReviewOutcomes == {"valid", "invalid", "unanswered", "garbled"}
Answers(s) ==
  CASE s.currentNode = "planning" ->
         [kind : {"threw", "questions"}, steps : {<<>>}]
           \cup [kind : {"plan"}, steps : PlanChoices]
    [] s.currentNode = "editing" ->
         [down : SUBSET {"qwen", "groq"}, applies : BOOLEAN,
          content : Contents, valid : BOOLEAN]
    [] s.currentNode = "reflection" ->
         \* the two documents are requested only after every review passed
         LET all == [1..Len(s.pendingDiffs) -> ReviewOutcomes]
             passed == [i \in 1..Len(s.pendingDiffs) |-> "valid"]
         IN [reviews : all \ {passed}, samjhaoDown : {{}}, docsDown : {{}}]
              \cup [reviews : {passed},
                    samjhaoDown : SUBSET {"gemini", "groq"},
                    docsDown : SUBSET {"gemini", "groq"}]
    [] OTHER -> [ok : BOOLEAN]

\* --------------------------------------------------------------- run()
\* addMessage(role, content, node)
addMessage(s, role, content, node) ==
  updateState(s, [messages |-> Append(s.messages,
                     [role |-> role, content |-> content, node |-> node])])

\* the first statements of run(input): the state update and the user message
Started(s) ==
  addMessage(updateState(s,
       [currentNode |-> "ingestion", isProcessing |-> TRUE, error |-> NoMessage,
        pendingDiffs |-> <<>>, appliedPatches |-> <<>>, currentStepIndex |-> 0,
        plan |-> NoPlan]),
     "user", "input", "none")

\* the state update after a handler returned: ...result.stateUpdates,
\* currentNode, estimatedCost
Merged(s, result) ==
  LET u == result.stateUpdates
  IN updateState(updateState(s, u),
       [currentNode |-> result.nextNode,
        estimatedCost |-> estimateCost(s.tokensUsed +
                            (IF "tokensUsed" \in DOMAIN u THEN u.tokensUsed ELSE 0))])

\* the messages added after the merge: the user message of the result, then
\* "if (!result.success && result.error)" the error
Recorded(s, result) ==
  LET told == IF result.userMessage # NoMessage
                THEN addMessage(s, "assistant", result.userMessage, result.nextNode)
                ELSE s
  IN IF ~result.success /\ result.error # NoMessage
       THEN addMessage(told, "system", <<"Error", result.error>>, "error")
       ELSE told

\* run(input): the state a run starts from
Run ==
  /\ runPc \in {"idle", "done"}
  /\ runs < MaxRuns
  /\ runs' = runs + 1
  /\ state' = Started(state)
  /\ iteration' = 0
  /\ runPc' = "loop"
  /\ invoked' = NoInvocation
  /\ UNCHANGED <<acVars, rsVars, ccVars, fnVars, apiConfigured>>

\* a loop test that lets iteration reach maxIterations + 1
LoopTest_Inclusive(s, n) ==
  s.currentNode # "idle" /\ s.currentNode # "error" /\ n <= maxIterations

\* the while condition of run() (the abort signal is never raised here)
LoopTest(s, n) ==
  s.currentNode # "idle" /\ s.currentNode # "error" /\ n < maxIterations

\* one iteration of the loop: iteration++, the handler of the current node,
\* the state update
Drive(o) ==
  /\ runPc = "loop"
  /\ LoopTest(state, iteration)
  /\ iteration' = iteration + 1
  /\ LET result == nodeExecutors(state.currentNode, state, o)
     IN /\ state' = Recorded(Merged(state, result), result)
        /\ invoked' = [node |-> state.currentNode,
                    index |-> state.currentStepIndex,
                    success |-> result.success,
                    nextNode |-> result.nextNode,
                    error |-> result.error,
                    verdicts |-> IF state.currentNode = "reflection" THEN o.reviews
                                 ELSE <<>>,
                    unanswered |-> result.error \in
                      {EditMessage, NewFileMessage, ReviewMessage, SamjhaoMessage,
                       DocsMessage}]
  /\ UNCHANGED <<acVars, rsVars, ccVars, fnVars, runPc, runs, apiConfigured>>

\* the loop has ended: the iteration check, return state
Finish ==
  /\ runPc = "loop"
  /\ ~LoopTest(state, iteration)
  /\ state' = IF iteration >= maxIterations
                THEN updateState(state, [currentNode |-> "error",
                                         error |-> MaxIterationsMessage,
                                         isProcessing |-> FALSE])
                ELSE state
  /\ runPc' = "done"
  /\ UNCHANGED <<acVars, rsVars, ccVars, fnVars, iteration, runs, apiConfigured, invoked>>

\* the first run() on a new orchestrator
FirstRun == runs = 0 /\ Run

NextRun ==
  \/ FirstRun
  \/ \E o \in Answers(state) : Drive(o)
  \/ Finish

\* the API keys present in the environment: all of them, only the fallback
\* provider, or none for code generation
ConfigChoices == {Models, {"groq"}, {"gemini"}}

InitRun ==
  /\ AcInit /\ variant = "upstash" /\ configured
  /\ RsInit
  /\ OrInit
  /\ CcInit
  /\ FnInit
  /\ apiConfigured \in ConfigChoices

SpecRun == InitRun /\ [][NextRun]_vars

\* ------------------------------------------------- run() after run()
\* the answers of a session: the planner returns at most one step, on main.tf
SessionAnswers(s) ==
  IF s.currentNode = "planning"
    THEN {o \in Answers(s) :
            /\ Len(o.steps) <= 1
            /\ \A i \in 1..Len(o.steps) : o.steps[i].file = "main.tf"}
  ELSE Answers(s)

NextSession ==
  \/ Run
  \/ \E o \in SessionAnswers(state) : Drive(o)
  \/ Finish

InitSession ==
  /\ AcInit /\ variant = "upstash" /\ configured
  /\ RsInit
  /\ OrInit
  /\ CcInit
  /\ FnInit
  /\ apiConfigured = Models

SpecSession == InitSession /\ [][NextSession]_vars

\* ------------------------------------- run() and stop(), interleaved
\* the while condition of run(), with the signal of the call
LoopTestOf(c, s, n) == LoopTest(s, n) /\ c \notin aborted

\* the loop of call c from its test to the next await: iteration++ and the
\* executor called with the state of that moment, or the end of the loop
Looped(c, i, s, n) ==
  IF LoopTestOf(c, s, n)
    THEN [pc |-> "await", inst |-> i, iteration |-> n + 1, given |-> s]
  ELSE [pc |-> "done", inst |-> i, iteration |-> n, given |-> InitialState]

\* "if (iteration >= maxIterations)" after the loop
AfterLoop(s, n) ==
  IF n >= maxIterations
    THEN updateState(s, [currentNode |-> "error", error |-> MaxIterationsMessage,
                         isProcessing |-> FALSE])
  ELSE s

\* run(input) on orchestrator i, up to its first await: the new controller,
\* the state update, the user message, the first handler called
Call(c, i) ==
  /\ call[c].pc = "none"
  /\ \A d \in Calls : d < c => call[d].pc # "none"
  /\ abortController' = c
  /\ latest' = [latest EXCEPT ![i] = c]
  /\ states' = [states EXCEPT ![i] = Started(states[i])]
  /\ call' = [call EXCEPT ![c] = Looped(c, i, Started(states[i]), 0)]
  /\ UNCHANGED <<acVars, rsVars, orVars, fnVars, aborted, stops, stopper, stoppedRuns>>

\* the handler of call c returns: the state update and the messages, up to
\* "await delay(100)"
Complete(c, o) ==
  /\ call[c].pc = "await"
  /\ LET i == call[c].inst
         given == call[c].given
         result == nodeExecutors(given.currentNode, given, o)
     IN /\ states' = [states EXCEPT ![i] = Recorded(Merged(states[i], result), result)]
        /\ call' = [call EXCEPT ![c] = [pc |-> "delay", inst |-> i,
                                        iteration |-> call[c].iteration,
                                        given |-> InitialState]]
  /\ UNCHANGED <<acVars, rsVars, orVars, fnVars, abortController, aborted, latest, stops,
                 stopper, stoppedRuns>>

\* the delay of call c is over: the loop test, then the next handler or the
\* end of run()
Resume(c) ==
  /\ call[c].pc = "delay"
  /\ LET i == call[c].inst
         n == call[c].iteration
     IN /\ call' = [call EXCEPT ![c] = Looped(c, i, states[i], n)]
        /\ states' = IF LoopTestOf(c, states[i], n) THEN states
                     ELSE [states EXCEPT ![i] = AfterLoop(states[i], n)]
  /\ UNCHANGED <<acVars, rsVars, orVars, fnVars, abortController, aborted, latest, stops,
                 stopper, stoppedRuns>>

\* stop() on orchestrator i
Stop(i) ==
  /\ stops < MaxStops
  /\ stops' = stops + 1
  /\ stopper' = i
  /\ aborted' = IF abortController = 0 THEN aborted
                ELSE aborted \cup {abortController}
  /\ states' = [states EXCEPT ![i] =
                  updateState(states[i], [isProcessing |-> FALSE,
                                          currentNode |-> "idle"])]
  /\ stoppedRuns' = stoppedRuns \cup
       {c \in Calls : call[c].inst = i /\ call[c].pc \in {"await", "delay"}}
  /\ UNCHANGED <<acVars, rsVars, orVars, fnVars, abortController, call, latest>>

\* the answers while calls overlap: the planner asks clarifying questions or
\* gets no answer, every other call is answered
StopAnswers(s) ==
  IF s.currentNode = "planning"
    THEN {o \in Answers(s) : o.kind \in {"questions", "threw"}}
  ELSE {o \in Answers(s) : o.ok}

NextStop ==
  \/ \E c \in Calls, i \in Instances : Call(c, i)
  \/ \E c \in Calls : \E o \in StopAnswers(call[c].given) : Complete(c, o)
  \/ \E c \in Calls : Resume(c)
  \/ \E i \in Instances : Stop(i)

InitStop ==
  /\ AcInit /\ variant = "upstash" /\ configured
  /\ RsInit
  /\ OrInit
  /\ CcInit
  /\ FnInit
  /\ apiConfigured = Models

SpecStop == InitStop /\ [][NextStop]_vars

\* ------------------------------------------------- applyPendingDiffs
\* the diffs a caller can hand over: created or edited, valid or not
DiffChoices ==
  [filePath : Files, originalContent : {0} \cup Contents,
   patchedContent : Contents, valid : BOOLEAN]
BatchChoices == UNION {[1..n -> DiffChoices] : n \in 0..MaxBatch}

\* const { codebase, results } = await applyPendingDiffs(state), kept in
\* the state as the reflection handler keeps them
Apply ==
  /\ runPc = "apply"
  /\ state' = updateState(state, [files |-> applyPendingDiffs(state).files,
                                  appliedPatches |-> applyPendingDiffs(state).results])
  /\ runPc' = "applied"
  /\ UNCHANGED <<acVars, rsVars, ccVars, fnVars, iteration, runs, apiConfigured, invoked>>

NextApply == Apply

InitApply ==
  /\ AcInit /\ variant = "upstash" /\ configured
  /\ RsInit
  /\ \E files \in [Files -> Contents \cup {Absent}], pd \in BatchChoices :
       state = updateState(InitialState,
                 [currentNode |-> "reflection", files |-> files, pendingDiffs |-> pd])
  /\ runPc = "apply"
  /\ CcInit
  /\ FnInit
  /\ iteration = 0
  /\ runs = 0
  /\ invoked = NoInvocation
  /\ apiConfigured = Models

SpecApply == InitApply /\ [][NextApply]_vars

\* ------------------------------------------- the diff engine: data
\* A text is the sequence of its lines and a line the sequence of its
\* characters; the empty sequence is the empty text.
Texts ==
  UNION {[1..n -> {<<"x">>, <<"-", "-", "x">>, <<"+", "+", "x">>}] : n \in 0..MaxLines}

\* one line of a diff text; of an "@@ -a,n +b,m @@" line, the numbers that
\* its text spells, and 0 in any other line
DiffTextLine(text, a, n, b, m) ==
  [text |-> text, oldStart |-> a, oldLines |-> n, newStart |-> b, newLines |-> m]

startsWith(line, prefix) ==
  /\ Len(line) >= Len(prefix)
  /\ SubSeq(line, 1, Len(prefix)) = prefix

\* ------------------------------------- the diff package (createTwoFilesPatch)
\* the body of the hunk that turns oldLines into newLines: a shortest edit
\* script, removals before additions
RECURSIVE diffLines(_, _)
diffLines(oldLines, newLines) ==
  IF oldLines = <<>>
    THEN [k \in 1..Len(newLines) |-> DiffTextLine(<<"+">> \o newLines[k], 0, 0, 0, 0)]
  ELSE IF newLines = <<>>
    THEN [k \in 1..Len(oldLines) |-> DiffTextLine(<<"-">> \o oldLines[k], 0, 0, 0, 0)]
  ELSE IF Head(oldLines) = Head(newLines)
    THEN <<DiffTextLine(<<" ">> \o Head(oldLines), 0, 0, 0, 0)>>
           \o diffLines(Tail(oldLines), Tail(newLines))
  ELSE LET removed == <<DiffTextLine(<<"-">> \o Head(oldLines), 0, 0, 0, 0)>>
                        \o diffLines(Tail(oldLines), newLines)
           added == <<DiffTextLine(<<"+">> \o Head(newLines), 0, 0, 0, 0)>>
                      \o diffLines(oldLines, Tail(newLines))
       IN  IF Len(removed) <= Len(added) THEN removed ELSE added

\* Texts of at most MaxLines lines with MaxLines no more than the three
\* lines of context: the one hunk of a patch covers the whole file.
createTwoFilesPatch(oldStr, newStr) ==
  <<DiffTextLine(<<"=", "=", "=">>, 0, 0, 0, 0),
    DiffTextLine(<<"-", "-", "-", " ", "a", "/">>, 0, 0, 0, 0),
    DiffTextLine(<<"+", "+", "+", " ", "b", "/">>, 0, 0, 0, 0)>>
  \o (IF oldStr = newStr
        THEN <<>>
        ELSE <<DiffTextLine(<<"@", "@">>,
                            IF oldStr = <<>> THEN 0 ELSE 1, Len(oldStr),
                            IF newStr = <<>> THEN 0 ELSE 1, Len(newStr))>>
               \o diffLines(oldStr, newStr))

\* --------------------------------------------- the diff package (applyPatch)
\* the lines of a hunk body whose first character is in ops, without it:
\* the lines the hunk asks to find in the source (" " and "-"), and the lines
\* it leaves in their place (" " and "+")
RECURSIVE Kept(_, _)
Kept(body, ops) ==
  IF body = <<>> THEN <<>>
  ELSE IF Head(body).text[1] \in ops
    THEN <<Tail(Head(body).text)>> \o Kept(Tail(body), ops)
  ELSE Kept(Tail(body), ops)

\* Diff.applyPatch: the patched text, or false when the hunk does not fit
\* the source.  A result is [ok, content]; false is the result with ok FALSE.
Diff_applyPatch(source, patch) ==
  LET at == {k \in 1..Len(patch) : startsWith(patch[k].text, <<"@", "@">>)}
  IN  IF at = {}
        THEN [ok |-> TRUE, content |-> source]
        ELSE LET h == CHOOSE k \in at : \A j \in at : k <= j
                 body == SubSeq(patch, h + 1, Len(patch))
                 first == IF patch[h].oldStart = 0 THEN 1 ELSE patch[h].oldStart
                 expected == Kept(body, {" ", "-"})
                 last == first + Len(expected) - 1
             IN  IF /\ last <= Len(source)
                    /\ SubSeq(source, first, last) = expected
                   THEN [ok |-> TRUE,
                         content |-> SubSeq(source, 1, first - 1)
                                       \o Kept(body, {" ", "+"})
                                       \o SubSeq(source, last + 1, Len(source))]
                   ELSE [ok |-> FALSE, content |-> <<>>]

\* ------------------------------------------------------ lib/diff-engine.ts
createUnifiedDiff_Swapped(filePath, oldContent, newContent) ==
  createTwoFilesPatch(newContent, oldContent)

createUnifiedDiff(filePath, oldContent, newContent) ==
  createTwoFilesPatch(oldContent, newContent)

\* null is the result with ok FALSE
applyPatch(originalContent, patchText) ==
  LET result == Diff_applyPatch(originalContent, patchText)
  IN  IF result.ok = FALSE THEN [ok |-> FALSE, content |-> <<>>] ELSE result

validatePatch(originalContent, patchText) ==
  LET result == Diff_applyPatch(originalContent, patchText)
  IN  result.ok # FALSE

\* one entry per line of the diff text that is a header, an addition, a
\* removal or a context line; oldLine and newLine are the two cursors, 0 and
\* 0 at the first line
RECURSIVE parseDiffLines(_, _, _)
parseDiffLines(lines, oldLine, newLine) ==
  IF lines = <<>> THEN <<>>
  ELSE
    LET line == Head(lines).text
        rest == Tail(lines)
        entry(type, content, old, new) ==
          [type |-> type, content |-> content,
           oldLineNumber |-> old, newLineNumber |-> new]
    IN  IF startsWith(line, <<"@", "@">>)
          THEN <<entry("header", line, Absent, Absent)>>
                 \o parseDiffLines(rest, Head(lines).oldStart, Head(lines).newStart)
        ELSE IF startsWith(line, <<"-", "-", "-">>) \/ startsWith(line, <<"+", "+", "+">>)
          THEN <<entry("header", line, Absent, Absent)>>
                 \o parseDiffLines(rest, oldLine, newLine)
        ELSE IF startsWith(line, <<"+">>)
          THEN <<entry("add", Tail(line), Absent, newLine)>>
                 \o parseDiffLines(rest, oldLine, newLine + 1)
        ELSE IF startsWith(line, <<"-">>)
          THEN <<entry("remove", Tail(line), oldLine, Absent)>>
                 \o parseDiffLines(rest, oldLine + 1, newLine)
        ELSE IF startsWith(line, <<" ">>)
          THEN <<entry("context", Tail(line), oldLine, newLine)>>
                 \o parseDiffLines(rest, oldLine + 1, newLine + 1)
        ELSE parseDiffLines(rest, oldLine, newLine)

\* ------------------------------------------- the diff engine, called
\* apply(original, diff(path, original, modified))
RoundTrip(originalContent, modified) ==
  LET patchText == createUnifiedDiff("main.tf", originalContent, modified)
  IN  /\ input.fn = "none"
      /\ input' = [fn |-> "applyPatch", originalContent |-> originalContent,
                   modified |-> modified, patchText |-> patchText]
      /\ output' = applyPatch(originalContent, patchText)
      /\ UNCHANGED <<acVars, rsVars, orVars, ccVars>>

\* validatePatch and applyPatch given the same text and the same patch
Validate(originalContent, patchText) ==
  /\ input.fn = "none"
  /\ input' = [fn |-> "validatePatch", originalContent |-> originalContent,
               patchText |-> patchText]
  /\ output' = [valid |-> validatePatch(originalContent, patchText),
                patched |-> applyPatch(originalContent, patchText)]
  /\ UNCHANGED <<acVars, rsVars, orVars, ccVars>>

ParseDiffLines(diffText) ==
  /\ input.fn = "none"
  /\ input' = [fn |-> "parseDiffLines", diffText |-> diffText]
  /\ output' = parseDiffLines(diffText, 0, 0)
  /\ UNCHANGED <<acVars, rsVars, orVars, ccVars>>

\* ------------------------------------------------------ lib/ast-parser.ts
\* The lines of a source file.  Of a line, what the extractor reads: the
\* name its declaration pattern captures ("" when no pattern matches) and
\* its braces, in order.
CodeLines ==
  {[text |-> "function foo() {", name |-> "foo", braces |-> <<"{">>],
   [text |-> "function foobar() { }", name |-> "foobar", braces |-> <<"{", "}">>],
   [text |-> "}", name |-> "", braces |-> <<"}">>],
   [text |-> "return 1;", name |-> "", braces |-> <<>>]}

\* the 0-based index of the line that closes the block starting on or after
\* line startIdx
findBlockEnd_Unclamped(lines, startIdx, open, close) == startIdx + 50

findBlockEnd(lines, startIdx, open, close) ==
  LET RECURSIVE scan(_, _, _, _)
      \* i: 0-based line, k: 1-based character of it
      scan(i, k, depth, found) ==
        IF i >= Len(lines)
          THEN IF startIdx + 50 < Len(lines) - 1 THEN startIdx + 50 ELSE Len(lines) - 1
        ELSE IF k > Len(lines[i + 1].braces) THEN scan(i + 1, 1, depth, found)
        ELSE IF lines[i + 1].braces[k] = open THEN scan(i, k + 1, depth + 1, TRUE)
        ELSE IF lines[i + 1].braces[k] = close
          THEN IF depth - 1 = 0 /\ found THEN i ELSE scan(i, k + 1, depth - 1, found)
        ELSE scan(i, k + 1, depth, found)
  IN  scan(startIdx, 1, 0, FALSE)

deduplicateSymbols_KeepsAll(symbols) == symbols

deduplicateSymbols(symbols) ==
  LET RECURSIVE insert(_, _)
      insert(sym, sorted) ==
        IF sorted = <<>> THEN <<sym>>
        ELSE IF Head(sorted).startLine < sym.startLine
          THEN <<Head(sorted)>> \o insert(sym, Tail(sorted))
        ELSE <<sym>> \o sorted
      \* symbols.sort((a, b) => a.startLine - b.startLine), a stable sort
      RECURSIVE sort(_)
      sort(s) == IF s = <<>> THEN <<>> ELSE insert(Head(s), sort(Tail(s)))
      RECURSIVE loop(_, _)
      loop(rest, lastEnd) ==
        IF rest = <<>> THEN <<>>
        ELSE LET sym == Head(rest)
             IN  IF sym.startLine > lastEnd \/ sym.kind = "method"
                   THEN <<sym>> \o loop(Tail(rest),
                                        IF sym.endLine > lastEnd THEN sym.endLine
                                                                 ELSE lastEnd)
                   ELSE loop(Tail(rest), lastEnd)
  IN  loop(sort(symbols), 0 - 1)

\* extractSymbols(content, "typescript"): one candidate for every line a
\* declaration pattern matches, in line order, then deduplicated
extractTSSymbols(lines) ==
  LET RECURSIVE from(_)
      from(i) ==
        IF i >= Len(lines) THEN <<>>
        ELSE IF lines[i + 1].name # ""
          THEN <<[name |-> lines[i + 1].name, kind |-> "function",
                  startLine |-> i + 1,
                  endLine |-> findBlockEnd(lines, i, "{", "}") + 1]>> \o from(i + 1)
        ELSE from(i + 1)
  IN  deduplicateSymbols(from(0))

\* null is the chunk with found FALSE; lines.slice(from, to) of the source
\* is the lines of index from..to-1 that the file has
extractChunk(lines, symbolName, contextLines) ==
  LET symbols == extractTSSymbols(lines)
      includes(name, part) ==
        \/ name = part
        \/ <<name, part>> \in {<<"foobar", "foo">>, <<"foobar", "bar">>}
      matching == {k \in 1..Len(symbols) : includes(symbols[k].name, symbolName)}
      max(a, b) == IF a > b THEN a ELSE b
      min(a, b) == IF a < b THEN a ELSE b
      slice(from, to) == SubSeq(lines, max(from, 0) + 1, min(to, Len(lines)))
  IN  IF matching = {}
        THEN [found |-> FALSE]
        ELSE LET symbol == symbols[CHOOSE k \in matching : \A j \in matching : k <= j]
                 startIdx == symbol.startLine - 1
                 endIdx == symbol.endLine - 1
                 ctxStartIdx == max(0, startIdx - contextLines)
                 ctxEndIdx == min(Len(lines) - 1, endIdx + contextLines)
             IN  [found |-> TRUE,
                  symbol |-> symbol,
                  code |-> slice(startIdx, endIdx + 1),
                  contextBefore |-> slice(ctxStartIdx, startIdx),
                  contextAfter |-> slice(endIdx + 1, ctxEndIdx + 1),
                  startLine |-> symbol.startLine,
                  endLine |-> symbol.endLine]

\* ------------------------------------------- the symbol extractor, called
Deduplicate(symbols) ==
  /\ input.fn = "none"
  /\ input' = [fn |-> "deduplicateSymbols", symbols |-> symbols]
  /\ output' = deduplicateSymbols(symbols)
  /\ UNCHANGED <<acVars, rsVars, orVars, ccVars>>

ExtractChunk(content, symbolName, contextLines) ==
  /\ input.fn = "none"
  /\ input' = [fn |-> "extractChunk", content |-> content,
               symbolName |-> symbolName, contextLines |-> contextLines]
  /\ output' = extractChunk(content, symbolName, contextLines)
  /\ UNCHANGED <<acVars, rsVars, orVars, ccVars>>

\* ------------------------------------------------- the pure functions
NextText ==
  \/ /\ input.fn = "none"
     /\ \E originalContent \in Texts, modified \in Texts :
          RoundTrip(originalContent, modified)
  \/ /\ input.fn = "none"
     /\ \E originalContent \in Texts, oldContent \in Texts, newContent \in Texts :
          Validate(originalContent, createUnifiedDiff("main.tf", oldContent, newContent))
  \/ /\ input.fn = "none"
     /\ \E oldContent \in Texts, newContent \in Texts :
          ParseDiffLines(createUnifiedDiff("main.tf", oldContent, newContent))
  \/ /\ input.fn = "none"
     /\ \E n \in 0..MaxSymbols :
          \E symbols \in [1..n -> {sym \in [name : {"foo"}, kind : {"function", "method"},
                                             startLine : 1..MaxCodeLines,
                                             endLine : 1..MaxCodeLines] :
                                     sym.startLine <= sym.endLine}] :
            Deduplicate(symbols)
  \/ /\ input.fn = "none"
     /\ \E n \in 1..MaxCodeLines :
          \E content \in [1..n -> CodeLines],
             symbolName \in {"foo", "bar", "foobar", "baz"},
             contextLines \in {0, 1, DefaultContextLines} :
            ExtractChunk(content, symbolName, contextLines)

SpecText == Init /\ [][NextText]_vars

\* ================================================================ claims
Limit(p, k) == IF k = "rpm" THEN PROVIDER_LIMITS[p].rpm ELSE PROVIDER_LIMITS[p].tpm
RpmKey(c) == Key(prov[c], "rpm", minute[c])
TpmKey(c) == Key(prov[c], "tpm", minute[c])
InIteration(c) == pc[c] \in {"read", "claim", "leave"}

\* C1: for every provider and every epoch, the request counter never exceeds
\* rpm(provider) and the token counter never exceeds tpm(provider), whatever
\* the interleaving of the store commands of the concurrent calls.
C1_WindowWithinLimits ==
  \A key \in DOMAIN kv : kv[key].v <= Limit(key[1], key[2])

\* a call at the head is refused because the request counter is at its limit
C1_Witness ==
  \E c \in Callers :
    /\ pc[c] = "leave"
    /\ position[c] = 1
    /\ cur[c].rpm = PROVIDER_LIMITS[prov[c]].rpm
    /\ StoreGet(kv, RpmKey(c)) = PROVIDER_LIMITS[prov[c]].rpm

\* C2: an iteration takes the grant path (request counter +1, token counter
\* +estimatedTokens, own id removed) exactly when its join returned position
\* 1 and it read requestCount < rpm and tokenCount + estimatedTokens <= tpm;
\* a call whose position is not 1 increments nothing in that iteration, and
\* the counters grow only by the commands of such a grant.
C2_Decides(c) ==
  (pc[c] = "read" /\ pc'[c] \in {"claim", "leave"}) =>
     (pc'[c] = "claim" <=>
        /\ position[c] = 1
        /\ cur'[c].rpm < PROVIDER_LIMITS[prov[c]].rpm
        /\ cur'[c].tpm + est[c] <= PROVIDER_LIMITS[prov[c]].tpm)

C2_Claims(c) ==
  (pc[c] = "claim" /\ pc'[c] = "granted") =>
     /\ bumps'[c] = 2
     /\ ~InQueue(queue'[prov[c]], c)

C2_Increments(c) ==
  (bumps'[c] # bumps[c]) =>
     /\ StoreGet(kv', RpmKey(c)) =
          StoreGet(kv, RpmKey(c)) + (IF bumps[c] = 0 THEN 1 ELSE 0)
     /\ StoreGet(kv', TpmKey(c)) =
          StoreGet(kv, TpmKey(c)) + (IF bumps'[c] = 2 THEN est[c] ELSE 0)

C2_OnlyHeadIncrements(c) ==
  /\ (bumps'[c] # bumps[c]) => (pc[c] = "claim" /\ position[c] = 1)
  /\ (InIteration(c) /\ position[c] # 1) => pc'[c] \notin {"claim", "granted"}

C2_CountersGrowByGrant ==
  (\E key \in DOMAIN kv' : StoreGet(kv', key) > StoreGet(kv, key)) =>
     \E c \in Callers : pc[c] = "claim" /\ bumps'[c] > bumps[c]

C2_GrantIffHeadWithCapacity ==
  [][/\ \A c \in Callers : /\ C2_Decides(c) /\ C2_Claims(c)
                          /\ C2_Increments(c) /\ C2_OnlyHeadIncrements(c)
     /\ C2_CountersGrowByGrant]_vars

\* one call was granted through the claim batch while another, which had
\* joined behind it at position 2, was refused and sleeps
C2_Witness ==
  \E c, d \in Callers :
    /\ pc[c] = "granted" /\ bumps[c] = 2
    /\ pc[d] = "sleep" /\ notified[d] # <<>> /\ notified[d][1] = 2 /\ bumps[d] = 0

\* C3: between the first counter increment of a granting call and its
\* dequeue, no other call of the same provider holds position 1 or is on
\* the grant path: the granting call stays at the head of the waitlist
\* until the last command of its batch.
C3_Claiming(c) == pc[c] = "claim" /\ batch[c] > 0

C3_GrantIsExclusive ==
  \A c \in Callers : pc[c] = "claim" =>
     /\ queue[prov[c]] # <<>>
     /\ Head(queue[prov[c]]) = c
     /\ \A d \in Callers \ {c} :
          (prov[d] = prov[c] /\ InIteration(d)) =>
             (position[d] # 1 /\ pc[d] # "claim")

\* a batch is half executed while another call of the same provider is
\* inside an iteration
C3_Witness ==
  \E c \in Callers : \E d \in Callers \ {c} :
    /\ C3_Claiming(c) /\ bumps[c] > 0
    /\ prov[d] = prov[c]
    /\ InIteration(d)

\* C4: N calls acquire(P, t) issued in one epoch with N <= rpm(P) and
\* N*t <= tpm(P) are all granted through the claim batch; none of them
\* returns through the MAX_WAITS cap.
Issued == {c \in Callers : issuedIn[c] >= 0}

RECURSIVE TokensOf(_)
TokensOf(S) ==
  IF S = {} THEN 0
  ELSE LET c == CHOOSE x \in S : TRUE IN est[c] + TokensOf(S \ {c})

C4_WithinBudget(P) ==
  /\ Issued # {}
  /\ \A c \in Issued : prov[c] = P /\ pc[c] # "noop"
  /\ \A c, d \in Issued : issuedIn[c] = issuedIn[d]
  /\ Cardinality(Issued) <= PROVIDER_LIMITS[P].rpm
  /\ TokensOf(Issued) <= PROVIDER_LIMITS[P].tpm

C4_AllGrantedWithinBudget ==
  \A P \in Limited : C4_WithinBudget(P) =>
     \A c \in Issued : pc[c] \notin {"forced", "threw"}

\* C5: once rpm(P) requests are counted in epoch e, a call that reads e's
\* counter is not granted in e; a refused call has had its status callback
\* with (position, delay) when it sleeps, the delay is
\* 60000 - (now mod 60000) + 100 ms, so the timer fires in the epoch after
\* the one of the refusal, and the next join uses a later epoch.
C5_DelayOf(t0) == EPOCH_MS - (t0 % EPOCH_MS) + SAFETY_MS

C5_State ==
  \A c \in Callers :
    /\ (pc[c] = "claim" /\ batch[c] = 0) =>
          StoreGet(kv, RpmKey(c)) < PROVIDER_LIMITS[prov[c]].rpm
    /\ pc[c] = "sleep" =>
          /\ notified[c] # <<>>
          /\ notified[c][1] = position[c]
          /\ notified[c][2] = C5_DelayOf(wakeAt[c] - notified[c][2])
          /\ CurrentMinute(wakeAt[c]) = CurrentMinute(wakeAt[c] - notified[c][2]) + 1
          /\ CurrentMinute(wakeAt[c]) > minute[c]

C5_Step ==
  \A c \in Callers :
    /\ (pc[c] = "sleep" /\ pc'[c] # "sleep") =>
          (now >= wakeAt[c] /\ CurrentMinute(now) > minute[c])
    /\ (pc[c] = "join" /\ waitCount[c] > 0 /\ pc'[c] = "read") =>
          minute'[c] > minute[c]

C5_RefusedUntilNextEpoch == []C5_State /\ [][C5_Step]_vars

\* a call at the head was refused against a full request counter and sleeps
C5_Witness ==
  \E c \in Callers :
    /\ pc[c] = "sleep"
    /\ notified[c] # <<>> /\ notified[c][1] = 1
    /\ StoreGet(kv, RpmKey(c)) = PROVIDER_LIMITS[prov[c]].rpm

\* C6: capacity is granted in join order: a call on the grant path is the
\* oldest entry of its provider's waitlist, so every call still waiting
\* there joined after it.
C6_GrantedInJoinOrder ==
  [][\A c \in Callers :
       (pc[c] = "claim" /\ bumps'[c] > bumps[c]) =>
          /\ queue[prov[c]] # <<>>
          /\ queue[prov[c]][1] = c]_vars

\* a call is on the grant path while another call waits behind it
C6_Witness ==
  \E c \in Callers :
    /\ pc[c] = "claim"
    /\ Len(queue[prov[c]]) >= 2
    /\ \E d \in Callers \ {c} : pc[d] \in {"read", "leave"} /\ prov[d] = prov[c]

\* C7: the id of a call is in the waitlist only between its rpush and its
\* lrem: not while it sleeps and not after waitForCapacity has ended,
\* whether by a grant, by the cap or by an error of a store command.
C7_NoSlotOutsideIteration ==
  \A c \in Callers :
    pc[c] \in {"idle", "join", "sleep", "granted", "forced", "noop", "threw"} =>
       ~InQueue(queue[prov[c]], c)

\* C8: at most MAX_WAITS = 10 refuse-and-sleep cycles; after the 10th the
\* call returns without having incremented a counter; every step of a call
\* lowers a bounded measure, so the call ends if the store answers.
C8_Local(c) ==
  CASE pc[c] = "idle"  -> 12
    [] pc[c] = "join"  -> 11
    [] pc[c] = "read"  -> 8 + Cardinality(pend[c])
    [] pc[c] = "claim" -> 8 - batch[c]
    [] pc[c] = "leave" -> 3
    [] pc[c] = "sleep" -> 2
    [] OTHER           -> 0

C8_Rank(c) ==
  IF pc[c] \in {"granted", "forced", "noop", "threw"} THEN 0
  ELSE (10 - waitCount[c]) * 16 + C8_Local(c)

C8_State ==
  \A c \in Callers :
    /\ waitCount[c] <= 10
    /\ pc[c] \in {"join", "read", "claim", "leave", "sleep"} => waitCount[c] < 10
    /\ pc[c] = "forced" => (waitCount[c] = 10 /\ bumps[c] = 0)
    /\ C8_Rank(c) >= 0

C8_Step ==
  \A c \in Callers :
    (<<pc[c], pend[c], batch[c], waitCount[c]>> # <<pc'[c], pend'[c], batch'[c], waitCount'[c]>>)
       => C8_Rank(c)' < C8_Rank(c)

C8_AtMostTenWaits == []C8_State /\ [][C8_Step]_vars

\* a call has returned through the cap
C8_Witness == \E c \in Callers : pc[c] = "forced" /\ waitCount[c] = 10

\* C9: a call started while the store is not configured or does not answer
\* returns at once: no sleep, no status callback, no waitlist or counter
\* command.
C9_NoOpWhenStoreUnavailable ==
  [][\A c \in Callers :
       (pc[c] = "idle" /\ pc'[c] # "idle" /\ (~configured \/ ~storeUp)) =>
          /\ pc'[c] = "noop"
          /\ queue' = queue /\ kv' = kv
          /\ notified'[c] = <<>>]_vars

C11_Invoked(c) == calls'[c] # calls[c]
C11_AcquireReturned(c) ==
  /\ rsPc[c] = "acquire"
  /\ pc[c] \in {"granted", "forced", "noop"}
  /\ pc[c] # "noop" => (prov[c] = rsProv[c] /\ est[c] = rsEst[c])

\* C11: in withSmartRetries every invocation of the wrapped call comes after
\* the waitForCapacity call of the same attempt, for the same provider, has
\* returned; the call is never invoked while that acquire is still joining,
\* reading, claiming or sleeping.
C11_CallAfterAcquire ==
  [][\A c \in Guarded : C11_Invoked(c) => C11_AcquireReturned(c)]_vars

\* the wrapped call is in flight after an acquire that had to wait
C11_Witness ==
  \E c \in Guarded : rsPc[c] = "call" /\ pc[c] = "granted" /\ waitCount[c] >= 1

C12_State ==
  \A c \in Guarded :
    /\ calls[c] <= maxRetries[c]
    /\ calls[c] <= attempt[c]
    /\ rsPc[c] = "returned" => (outcome[c].kind = "value" /\ outcome[c].at = attempt[c])
C12_Fails(c) == rsPc[c] \in {"call", "acquire"} /\ rsPc'[c] \in {"backoff", "threw"}
C12_Step ==
  \A c \in Guarded :
    /\ (rsPc[c] = "call" /\ rsPc'[c] = "returned") =>
         /\ outcome'[c] = [kind |-> "value", at |-> attempt[c], err |-> NoError]
         /\ calls'[c] = calls[c]
    /\ rsPc[c] \in {"returned", "threw"} =>
         UNCHANGED <<rsPc[c], calls[c], attempt[c], outcome[c], retryAt[c], pc[c]>>
    /\ (C12_Fails(c) /\ attempt[c] = maxRetries[c]) =>
         /\ rsPc'[c] = "threw"
         /\ outcome'[c] = [kind |-> "error", at |-> attempt[c], err |-> caught'[c]]
         /\ UNCHANGED <<attempt[c], calls[c], waitTime[c], retryAt[c], status[c], warned[c]>>

\* C12: withSmartRetries invokes the wrapped call at most maxRetries times;
\* the first invocation that succeeds ends it with that invocation's value
\* and nothing runs afterwards; when attempt maxRetries fails, its error is
\* thrown at once, with no status message, no timer and no further attempt.
C12_AtMostNAttempts == []C12_State /\ [][C12_Step]_vars

\* all three attempts of a default guarded call invoked the call and failed
C12_Witness ==
  \E c \in Guarded :
    /\ rsPc[c] = "threw"
    /\ maxRetries[c] = DefaultMaxRetries
    /\ calls[c] = DefaultMaxRetries
    /\ outcome[c] = [kind |-> "error", at |-> DefaultMaxRetries, err |-> caught[c]]

C13_Throttled(e) == e.m429 \/ e.s429
C13_Wait(e, k) ==
  IF C13_Throttled(e) THEN 10000
  ELSE CASE k = 1 -> 2000 [] k = 2 -> 4000 [] OTHER -> (2 ^ k) * 1000
C13_State ==
  \A c \in Guarded :
    rsPc[c] = "backoff" =>
      /\ attempt[c] < maxRetries[c]
      /\ waitTime[c] = C13_Wait(caught[c], attempt[c])
      /\ warned[c] = <<rsProv[c], attempt[c], waitTime[c]>>
      /\ hasStatus[c] =>
           status[c] = <<"retrying", waitTime[c] \div 1000, attempt[c] + 1, maxRetries[c]>>
C13_Step ==
  \A c \in Guarded :
    /\ (rsPc[c] # "backoff" /\ rsPc'[c] = "backoff") =>
         retryAt'[c] = now + C13_Wait(caught'[c], attempt[c])
    /\ (rsPc[c] = "backoff" /\ rsPc'[c] # "backoff") => now >= retryAt[c]

\* C13: after a failed attempt k that is not the last, the retry message has
\* been handed to the status callback (when one was passed) and logged, and
\* the timer is set to exactly 10 s when the error's message contains 429 or
\* its status is 429, otherwise to exactly 2^k s (2 s after attempt 1, 4 s
\* after attempt 2); the next attempt does not start before it fires.
C13_BackoffExact == []C13_State /\ [][C13_Step]_vars

\* the second attempt failed without a throttling signal: a 4 s back-off,
\* announced to the status callback
C13_Witness ==
  \E c \in Guarded :
    /\ rsPc[c] = "backoff"
    /\ attempt[c] = 2
    /\ ~C13_Throttled(caught[c])
    /\ hasStatus[c]
    /\ waitTime[c] = 4000

\* --------------------------------------------------- claims: orchestrator
Terminal(n) == n \in {"idle", "error"}
HandlerInvoked == iteration' = iteration + 1
SeqRange(q) == {q[i] : i \in 1..Len(q)}

C14_State ==
  /\ iteration <= 20
  /\ (runPc = "done" /\ ~Terminal(invoked.nextNode)) =>
       /\ iteration = 20
       /\ state.currentNode = "error"
       /\ state.error = "Maximum iterations reached"
C14_Step == HandlerInvoked => (runPc = "loop" /\ ~Terminal(state.currentNode))

\* C14: the loop of run() never invokes a handler while currentNode is idle
\* or error and invokes at most 20 handlers; a run whose handlers keep
\* returning non-terminal next nodes ends after exactly 20 invocations with
\* currentNode = error and the message "Maximum iterations reached".
C14_AtMostTwentyHandlers == []C14_State /\ [][C14_Step]_vars

\* a run was cut off by the cap while its 20th handler asked for another step
C14_Witness ==
  /\ runPc = "done"
  /\ iteration = 20
  /\ invoked.nextNode = "editing"
  /\ state.currentNode = "error"
  /\ state.error = MaxIterationsMessage

\* C15: a finished run carries the maximum-iterations error only if its last
\* handler left a non-terminal node: a run whose 20th handler returned idle
\* ends in idle, one whose 20th handler returned error keeps that handler's
\* message in state.error.
C15_CapOnlyWhenNonTerminal ==
  (runPc = "done" /\ iteration = 20) =>
    /\ invoked.nextNode = "idle" => state.currentNode = "idle"
    /\ invoked.nextNode = "error" => state.error = invoked.error
    /\ state.error = "Maximum iterations reached" => ~Terminal(invoked.nextNode)

C16_State ==
  invoked.unanswered =>
    /\ ~invoked.success
    /\ invoked.nextNode = "error"
    /\ state.currentNode = "error"
    /\ state.error = invoked.error
    /\ state.currentStepIndex = invoked.index
C16_Step ==
  (HandlerInvoked /\ invoked'.unanswered) =>
    /\ state'.plan = state.plan
    /\ state'.pendingDiffs = state.pendingDiffs
    /\ state'.appliedPatches = state.appliedPatches
    /\ state'.files = state.files

\* C16: when the guarded model calls of a step are answered by no configured
\* provider, the handler returns success = false and nextNode = error, the
\* run stays in the error state with the handler's failure message in
\* state.error, the plan index does not move, and no diff, patch or file
\* is produced in place of the missing answer.
C16_ExhaustionEndsInError == []C16_State /\ [][C16_Step]_vars

C17_Completes(i) ==
  /\ HandlerInvoked
  /\ state.currentNode = "editing"
  /\ state.plan.present
  /\ state.currentStepIndex = i
  /\ i < Len(state.plan.steps)
  /\ invoked'.success
C17_Next(steps, i) ==
  IF i + 1 = Len(steps) THEN "reflection"
  ELSE IF steps[i + 2].action = "search" THEN "retrieval"
  ELSE "editing"
C17_Step ==
  \A i \in 0..(MaxSteps + 1) :
    C17_Completes(i) =>
      /\ state'.currentStepIndex = i + 1
      /\ state'.plan.steps[i + 1].completed
      /\ state'.currentNode = C17_Next(state.plan.steps, i)

\* C17: when the editing handler completes plan step i, currentStepIndex
\* becomes i + 1, step i is marked completed, and the next node is reflection
\* if i + 1 = len(plan.steps), otherwise retrieval if step i + 1 has action
\* search, otherwise editing.
C17_EditingBranchRule == [][C17_Step]_vars

\* the editing handler completed a step and the next step is a search
C17_Witness ==
  /\ invoked.node = "editing"
  /\ invoked.success
  /\ state.currentStepIndex = invoked.index + 1
  /\ state.plan.steps[invoked.index + 1].completed
  /\ state.currentNode = "retrieval"

C18_Rejects ==
  /\ HandlerInvoked
  /\ state.currentNode = "reflection"
  /\ state.pendingDiffs # <<>>
  /\ SeqRange(invoked'.verdicts) \subseteq {"valid", "invalid"}
  /\ "invalid" \in SeqRange(invoked'.verdicts)
C18_Step ==
  C18_Rejects =>
    /\ state'.currentNode = "editing"
    /\ state'.currentStepIndex = state.currentStepIndex
    /\ state'.plan = state.plan
    /\ state'.pendingDiffs = state.pendingDiffs
    /\ state'.appliedPatches = state.appliedPatches

C19_AfterFailedReview ==
  /\ invoked.node = "reflection"
  /\ ~invoked.success
  /\ invoked.nextNode = "editing"
C19_Step ==
  (C19_AfterFailedReview /\ HandlerInvoked) =>
    /\ state.currentNode = "editing"
    /\ state.currentStepIndex < Len(state.plan.steps)
    /\ state.plan.steps[state.currentStepIndex + 1].diff
    /\ invoked'.nextNode # "reflection" \/ state'.pendingDiffs # state.pendingDiffs

\* C19: the handler invoked after a failed review is the editing handler, and
\* that invocation executes the plan step whose diff was rejected again
\* before reflection is entered again.
C19_RejectedStepIsEditedAgain == [][C19_Step]_vars

\* C20: in every reachable state of a run that has a plan,
\* 0 <= currentStepIndex <= len(plan.steps), whatever handlers ran.
C20_IndexWithinPlan ==
  state.plan.present =>
    (0 <= state.currentStepIndex /\ state.currentStepIndex <= Len(state.plan.steps))

\* the editing handler was invoked with the index at len(plan.steps) and
\* left it there
C20_Witness ==
  /\ state.plan.present
  /\ invoked.node = "editing"
  /\ invoked.index = Len(state.plan.steps)
  /\ state.currentStepIndex = Len(state.plan.steps)

\* ------------------------------------------------ claims: run accounting
C21_Step == state'.tokensUsed >= state.tokensUsed

\* C21: tokensUsed never decreases from one handler merge to the next within
\* a run, whichever handler ran and whether it succeeded, failed a review or
\* returned an error.
C21_TokensNeverDecrease == [][C21_Step]_vars

\* a review was rejected after the earlier handlers had spent tokens, and the
\* total grew by the tokens of the review
C21_Witness ==
  /\ invoked.node = "reflection"
  /\ ~invoked.success
  /\ invoked.nextNode = "editing"
  /\ Len(state.pendingDiffs) = 1
  /\ state.tokensUsed > estimateTokens(DiffLength(state.pendingDiffs[1])) + ReviewOverhead

C22_Step == HandlerInvoked => state'.estimatedCost >= state.estimatedCost

\* C22: estimatedCost never decreases from one handler merge to the next
\* within a run, also after a handler that returns no tokensUsed update
\* (retrieval, responding, an error result).
C22_CostNeverDecreases == [][C22_Step]_vars

\* C23: when a run starts, the first or a later one on the same orchestrator,
\* currentNode is ingestion, tokensUsed, estimatedCost and currentStepIndex
\* are 0, pendingDiffs and appliedPatches are empty and there is no plan and
\* no error.
C23_RunStartsClean ==
  (runPc = "loop" /\ iteration = 0) =>
    /\ state.currentNode = "ingestion"
    /\ state.tokensUsed = 0
    /\ state.estimatedCost = 0
    /\ state.currentStepIndex = 0
    /\ state.pendingDiffs = <<>>
    /\ state.appliedPatches = <<>>
    /\ ~state.plan.present
    /\ state.error = NoMessage

\* ------------------------------------------------ claims: applying diffs
\* a run of five handlers (ingestion, planning, editing, reflection,
\* responding) over a plan of one create step has ended
C27_Completed ==
  /\ runPc = "done"
  /\ iteration = 5
  /\ invoked.node = "responding"
  /\ invoked.success
  /\ state.plan.present
  /\ Len(state.plan.steps) = 1
  /\ state.plan.steps[1].action = "create"
C27_Applied ==
  /\ state.currentNode \in {"responding", "idle"}
  /\ Len(state.appliedPatches) = 1
  /\ state.appliedPatches[1].success
  /\ state.appliedPatches[1].filePath = state.plan.steps[1].file

\* C27 as stated: after a run whose goal yields a one-step create plan and
\* whose model calls and review all succeed, currentNode is responding or
\* idle, pendingDiffs has exactly one entry and appliedPatches has exactly
\* one entry, with success = true, for the created file.
C27_OneDiffStillPending ==
  C27_Completed => (C27_Applied /\ Len(state.pendingDiffs) = 1)

\* C27, amended: after such a run currentNode is responding or idle,
\* pendingDiffs is empty (the passed review moved its one diff out) and
\* appliedPatches has exactly one entry, with success = true, for the created
\* file.
C27_OneDiffApplied ==
  C27_Completed => (C27_Applied /\ state.pendingDiffs = <<>>)

\* such a run has ended in idle and the created file is in the codebase
C27_Witness ==
  /\ C27_Completed
  /\ state.currentNode = "idle"
  /\ state.files[state.plan.steps[1].file] \in Contents

C28_Fails(diff) == ~diff.valid /\ diff.originalContent # 0
C28_Step ==
  (runPc = "apply" /\ runPc' = "applied") =>
    LET pd == state.pendingDiffs
        results == state'.appliedPatches
        others(f) == {i \in 1..Len(pd) : pd[i].filePath = f /\ ~C28_Fails(pd[i])}
    IN /\ Len(results) = Len(pd)
       /\ \A i \in 1..Len(pd) :
            /\ results[i].filePath = pd[i].filePath
            /\ C28_Fails(pd[i]) =>
                 (~results[i].success /\ results[i].error = "Patch validation failed")
            /\ ~C28_Fails(pd[i]) => results[i].success
       /\ \A f \in Files :
            IF others(f) = {} THEN state'.files[f] = state.files[f]
            ELSE \E i \in others(f) :
                   /\ \A j \in others(f) : j <= i
                   /\ state'.files[f] = pd[i].patchedContent

C29_EmptyOriginalAccepted ==
  runPc = "applied" =>
    \A i \in 1..Len(state.pendingDiffs) :
      LET diff == state.pendingDiffs[i]
      IN diff.originalContent = 0 =>
           /\ state.appliedPatches[i].success
           /\ (\A j \in (i + 1)..Len(state.pendingDiffs) :
                 state.pendingDiffs[j].filePath = diff.filePath
                   => ~state.appliedPatches[j].success)
                => state.files[diff.filePath] = diff.patchedContent

\* a diff with empty original content and a diff text that does not validate
\* was applied
C29_Witness ==
  /\ runPc = "applied"
  /\ Len(state.pendingDiffs) = 1
  /\ state.pendingDiffs[1].originalContent = 0
  /\ ~state.pendingDiffs[1].valid
  /\ state.appliedPatches[1].success
  /\ state.files[state.pendingDiffs[1].filePath] = state.pendingDiffs[1].patchedContent

\* ------------------------------------------------ claims: the transcript
C30_Step ==
  (HandlerInvoked /\ ~invoked'.success) =>
    /\ Len(state'.messages) > Len(state.messages)
    /\ state'.messages[Len(state'.messages)].role = "system"
    /\ state'.messages[Len(state'.messages)].node = "error"

\* C30: for every handler result with success = false, whether its next node
\* is error or a retry target such as editing, the loop of run() appends an
\* error entry for that failure to the conversation transcript.
C30_EveryFailureRecorded == [][C30_Step]_vars

\* ------------------------------------------ claims: stop() and overlap
InProgress(c) == call[c].pc \in {"await", "delay"}
HandlerStarted(c) == call[c].pc # "await" /\ call'[c].pc = "await"
HandlerMerged(c) == call[c].pc = "await" /\ call'[c].pc = "delay"

C24_Step == \A c \in Calls : HandlerStarted(c) => c \notin stoppedRuns

\* C24: after stop() is called on an orchestrator during a run in progress,
\* the loop of that run starts no further handler (the handler in flight may
\* complete and be merged).
C24_NoHandlerAfterStop == [][C24_Step]_vars

C25_State ==
  \A c \in Calls : \A d \in Calls \ {c} :
    ~(call[c].pc = "await" /\ call[d].pc = "await" /\ call[c].inst = call[d].inst)
C25_Step == \A c \in Calls : HandlerMerged(c) => latest[call[c].inst] = c

\* C25: whatever run() and stop() calls are made on one orchestrator, no two
\* handlers are in flight on its state at the same time, and no handler
\* result of an earlier run is merged into the state of a later run.
C25_RunsDoNotOverlap == []C25_State /\ [][C25_Step]_vars

C26_Step ==
  (stops' = stops + 1) =>
    /\ \A c \in Calls : (InProgress(c) /\ call[c].inst = stopper') => c \in aborted'
    /\ \A c \in aborted' \ aborted : call[c].inst = stopper'
    /\ \A i \in Instances \ {stopper'} : states'[i] = states[i]

\* C26: stop() on orchestrator A cancels the run in progress on A and
\* neither cancels nor alters a run in progress on another orchestrator B,
\* in whatever order the two runs were started.
C26_StopIsPerInstance == [][C26_Step]_vars

\* ------------------------------------------------ claims: model calls
C31_Step ==
  \A c \in Guarded :
    calls'[c] # calls[c] =>
      /\ rsPc[c] = "acquire"
      /\ pc[c] \in {"granted", "forced", "noop"}
      /\ pc[c] # "noop" => prov[c] = rsProv[c]

\* C31: every model call made during a run, by the ingestion and planning
\* steps as by the editing and reflection steps, is invoked only after a
\* waitForCapacity call for the provider being called has returned.
C31_EveryCallGated == [][C31_Step]_vars

C33_ValidateIsApply ==
  input.fn = "validatePatch" => (output.valid <=> output.patched.ok)

\* C33: validate(original, diffText) is true exactly when apply(original,
\* diffText) does not fail, and applyPendingDiffs, deciding whether a pending
\* diff is applied, reaches for every diff the verdict that applying its diff
\* text to its original content gives.
C33_SameVerdict ==
  /\ C33_ValidateIsApply
  /\ runPc = "applied" =>
       \A i \in 1..Len(state.pendingDiffs) :
         state.appliedPatches[i].success = state.pendingDiffs[i].valid

C34_Header == CHOOSE k \in 1..Len(input.diffText) :
                startsWith(input.diffText[k].text, <<"@", "@">>)

\* the entry of the k-th line of the diff text: every line that starts with
\* "@@", "+", "-" or a space has one
C34_Entry(k) ==
  output[Cardinality({j \in 1..k :
                        input.diffText[j].text[1] \in {"@", "+", "-", " "}})]

\* the body lines of the hunk before line k whose first character is in ops
C34_Earlier(k, ops) ==
  Cardinality({j \in (C34_Header + 1)..(k - 1) : input.diffText[j].text[1] \in ops})

\* C34: inside a hunk with header @@ -a +b @@, parseDiffLines emits every
\* body line starting with "-" as a remove with oldLineNumber a plus the
\* number of earlier remove and context lines and no newLineNumber, every
\* line starting with "+" as an add with newLineNumber b plus the number of
\* earlier add and context lines and no oldLineNumber, and every context
\* line with both numbers.
C34_IndependentCursors ==
  (/\ input.fn = "parseDiffLines"
   /\ \E k \in 1..Len(input.diffText) :
        startsWith(input.diffText[k].text, <<"@", "@">>)) =>
    \A k \in (C34_Header + 1)..Len(input.diffText) :
      LET first == input.diffText[k].text[1]
          old == input.diffText[C34_Header].oldStart + C34_Earlier(k, {"-", " "})
          new == input.diffText[C34_Header].newStart + C34_Earlier(k, {"+", " "})
          e == C34_Entry(k)
      IN  /\ first = "-" =>
               (e.type = "remove" /\ e.oldLineNumber = old /\ e.newLineNumber = Absent)
          /\ first = "+" =>
               (e.type = "add" /\ e.newLineNumber = new /\ e.oldLineNumber = Absent)
          /\ first = " " =>
               (e.type = "context" /\ e.oldLineNumber = old /\ e.newLineNumber = new)

\* ------------------------------------------ claims: the symbol extractor
\* the candidates sorted by start line, candidates of one start line in the
\* order they were given
C35_Sorted ==
  LET n == Len(input.symbols)
      p == CHOOSE q \in [1..n -> 1..n] :
             \A i \in 1..n : \A j \in (i + 1)..n :
               \/ input.symbols[q[i]].startLine < input.symbols[q[j]].startLine
               \/ /\ input.symbols[q[i]].startLine = input.symbols[q[j]].startLine
                  /\ q[i] < q[j]
  IN  [k \in 1..n |-> input.symbols[p[k]]]

\* C35: deduplication over the candidates sorted by start line keeps a
\* candidate exactly when its kind is method or its start line lies after the
\* end line of every symbol accepted before it, and the result is the kept
\* candidates in that order; every candidate that is no method and whose
\* start line falls inside the range of a symbol accepted before it is
\* discarded.
C35_KeepsOutermostAndMethods ==
  input.fn = "deduplicateSymbols" =>
    LET sorted == C35_Sorted
        n == Len(sorted)
    IN  \E kept \in SUBSET (1..n) :
          /\ \A k \in 1..n :
               k \in kept <=>
                 \/ sorted[k].kind = "method"
                 \/ \A j \in kept : j < k => sorted[k].startLine > sorted[j].endLine
          /\ \A k \in 1..n :
               (/\ sorted[k].kind # "method"
                /\ \E j \in kept : /\ j < k
                                   /\ sorted[j].startLine <= sorted[k].startLine
                                   /\ sorted[k].startLine <= sorted[j].endLine)
                 => k \notin kept
          /\ Len(output) = Cardinality(kept)
          /\ \A k \in kept : output[Cardinality({j \in kept : j <= k})] = sorted[k]

\* of three candidates given out of order, a function inside the first
\* function was discarded and a method inside it was kept
C35_Witness ==
  /\ input.fn = "deduplicateSymbols"
  /\ Len(input.symbols) = 3
  /\ input.symbols[1].startLine > input.symbols[2].startLine
  /\ Len(output) = 2
  /\ output[1].kind = "function"
  /\ output[2].kind = "method"
  /\ output[2].startLine <= output[1].endLine
  /\ \E k \in 1..3 : /\ input.symbols[k].kind = "function"
                     /\ input.symbols[k].startLine > output[1].startLine
                     /\ input.symbols[k].startLine <= output[1].endLine

\* name equals or contains part
C36_Contains(name, part) ==
  \/ name = part
  \/ name = "foobar" /\ part \in {"foo", "bar"}

\* C36: extractChunk selects the first symbol, in extraction order, whose
\* name equals or contains symbolName and returns null when there is none;
\* the symbol lies inside the file, the returned code is exactly lines
\* startLine..endLine, contextBefore is the min(contextLines, startLine - 1)
\* lines before it and contextAfter the min(contextLines, lineCount -
\* endLine) lines after it.
C36_ChunkInsideFile ==
  input.fn = "extractChunk" =>
    LET lines == input.content
        symbols == extractTSSymbols(lines)
        matching == {k \in 1..Len(symbols) : C36_Contains(symbols[k].name, input.symbolName)}
        min(a, b) == IF a < b THEN a ELSE b
    IN  IF matching = {}
          THEN ~output.found
          ELSE LET sym == symbols[CHOOSE k \in matching : \A j \in matching : k <= j]
                   before == min(input.contextLines, output.startLine - 1)
                   after == min(input.contextLines, Len(lines) - output.endLine)
               IN  /\ output.found
                   /\ output.symbol = sym
                   /\ output.startLine = sym.startLine
                   /\ output.endLine = sym.endLine
                   /\ 1 <= output.startLine
                   /\ output.startLine <= output.endLine
                   /\ output.endLine <= Len(lines)
                   /\ output.code = [k \in 1..(output.endLine - output.startLine + 1) |->
                                      lines[output.startLine + k - 1]]
                   /\ output.contextBefore =
                        [k \in 1..before |-> lines[output.startLine - before + k - 1]]
                   /\ output.contextAfter =
                        [k \in 1..after |-> lines[output.endLine + k]]

\* the second symbol of the file was selected because its name contains
\* symbolName; its block is never closed, and the chunk has one line of
\* context before it and ends with the file
C36_Witness ==
  /\ input.fn = "extractChunk"
  /\ input.symbolName = "bar"
  /\ input.contextLines = 1
  /\ output.found
  /\ output.symbol.name = "foobar"
  /\ output.startLine = 3
  /\ output.endLine = Len(input.content)
  /\ Len(output.contextBefore) = 1
  /\ output.contextAfter = <<>>

\* no symbol of the file has a name that contains symbolName
C36_NoneFound ==
  /\ input.fn = "extractChunk"
  /\ \E k \in 1..Len(input.content) : input.content[k].name = "foo"
  /\ input.symbolName = "bar"
  /\ ~output.found

\* ------------------------------------------------ claims: the plan cursor
C37_State ==
  state.currentNode = "reflection" =>
    /\ state.plan.present
    /\ state.currentStepIndex = Len(state.plan.steps)
    /\ \A j \in 1..Len(state.plan.steps) : state.plan.steps[j].completed

\* the handler that ran before this one was the reflection handler and its
\* review failed
C37_AfterFailedReview ==
  /\ invoked.node = "reflection"
  /\ ~invoked.success
  /\ invoked.nextNode = "editing"
  /\ \E i \in 1..Len(invoked.verdicts) : invoked.verdicts[i] = "invalid"

\* every field a handler can update is left as it was; currentNode and
\* estimatedCost are written by run() after every handler
C37_Step ==
  (HandlerInvoked /\ state.currentNode = "editing" /\ C37_AfterFailedReview) =>
    /\ state.currentStepIndex >= Len(state.plan.steps)
    /\ invoked'.success
    /\ invoked'.nextNode = "reflection"
    /\ state'.currentNode = "reflection"
    /\ \A field \in DOMAIN state \ {"currentNode", "estimatedCost"} :
         state'[field] = state[field]

\* C37: in every state of a single uninterrupted run, currentNode =
\* reflection implies that a plan exists, that currentStepIndex is the
\* number of its steps and that every step is completed; hence the editing
\* handler invoked after a failed review finds no step left, returns no
\* state update and returns nextNode = reflection.
C37_ReflectionAfterLastStep == []C37_State /\ [][C37_Step]_vars

\* after a failed review of a two-step plan the editing handler ran and sent
\* the run back to reflection, the rejected diffs still pending
C37_Witness ==
  /\ invoked.node = "editing"
  /\ invoked.index = MaxSteps
  /\ invoked.nextNode = "reflection"
  /\ state.currentNode = "reflection"
  /\ state.error = ReviewFailedMessage
  /\ Len(state.plan.steps) = MaxSteps
  /\ state.pendingDiffs # <<>>

\* ------------------------------------------------ claims: the end of a run
\* C38: whenever run() has returned, isProcessing is false, whichever way the
\* run ended: the responding handler leading to idle, a handler returning
\* nextNode = error, the iteration cap, or an exception in the loop.
C38_NotProcessingAtReturn == runPc = "done" => ~state.isProcessing

\* call c returns; it is the only run() made on its orchestrator, and stop()
\* was called on that orchestrator while c was in progress
C39_ReturnsStopped(c) ==
  /\ call[c].pc = "delay"
  /\ call'[c].pc = "done"
  /\ c \in stoppedRuns
  /\ c \in aborted
  /\ stopper = call[c].inst
  /\ \A d \in Calls \ {c} : call[d].pc = "none" \/ call[d].inst # call[c].inst

C39_Step ==
  \A c \in Calls :
    C39_ReturnsStopped(c) =>
      /\ states'[call[c].inst].currentNode = "idle"
      /\ ~states'[call[c].inst].isProcessing

\* C39: if stop() is called while a handler is in flight, then once run() has
\* returned the state is the one stop() wrote, currentNode = idle and
\* isProcessing = false, not overwritten by the nextNode or the state updates
\* of the handler that was in flight.
C39_StopOutlastsHandler == [][C39_Step]_vars

\* ------------------------------------------- claims: diffs of one file
\* the pending diffs of path f that the call reported as applied
C40_AcceptedFor(f) ==
  {i \in 1..Len(state.pendingDiffs) :
     state.pendingDiffs[i].filePath = f /\ state'.appliedPatches[i].success}

C40_Step ==
  (runPc = "apply" /\ runPc' = "applied") =>
    /\ Len(state'.appliedPatches) = Len(state.pendingDiffs)
    /\ \A i \in 1..Len(state.pendingDiffs) :
         state'.appliedPatches[i].success =
           (state.pendingDiffs[i].valid \/ state.pendingDiffs[i].originalContent = 0)
    /\ \A f \in Files :
         IF C40_AcceptedFor(f) = {}
           THEN state'.files[f] = state.files[f]
           ELSE LET last == CHOOSE i \in C40_AcceptedFor(f) :
                              \A j \in C40_AcceptedFor(f) : j <= i
                IN  state'.files[f] = state.pendingDiffs[last].patchedContent

\* C40: applyPendingDiffs never composes diffs: whether a diff is accepted
\* depends on the diff alone (its text validated against its own recorded
\* originalContent) and not on the content the file has by then; for every
\* path the content after the call is the patchedContent of the last
\* accepted pending diff of that path, and a file with no accepted pending
\* diff is left unchanged.
C40_NeverComposes == [][C40_Step]_vars

\* two valid diffs of one existing file were accepted, the second made from
\* the content the file had before the first: the file has the content of
\* the second, and the other file is as it was
C40_Witness ==
  /\ runPc = "applied"
  /\ Len(state.pendingDiffs) = 2
  /\ state.pendingDiffs[1].filePath = "main.tf"
  /\ state.pendingDiffs[2].filePath = "main.tf"
  /\ state.pendingDiffs[1].valid /\ state.pendingDiffs[2].valid
  /\ state.pendingDiffs[1].originalContent = 4
  /\ state.pendingDiffs[2].originalContent = 4
  /\ state.pendingDiffs[1].patchedContent = 8
  /\ state.pendingDiffs[2].patchedContent = 4
  /\ state.appliedPatches[1].success /\ state.appliedPatches[2].success
  /\ state.files["main.tf"] = 4
  /\ state.files["vars.tf"] = 8
====
